---- MODULE Spec2Model ----
(***************************************************************************)
(* ML failure dashboard: the artifacts served to the dashboard (overview,  *)
(* confusion matrix, confidence curve, errors by class, prediction list),  *)
(* the client's getPredictions query on the mock path and on the real      *)
(* backend path, and the ratios the components compute from the artifacts. *)
(*                                                                         *)
(* Units.  A confidence is an integer number of hundredths (0.78 is 78).   *)
(* Every other fraction the program holds as a float (accuracy, error      *)
(* rate, percentage) is an exact rational [num |-> n, den |-> d], d > 0.   *)
(* An optional field of a TypeScript object, and a state that is null     *)
(* until it is loaded, is a set: {} is undefined or null, {v} is the      *)
(* value v.                                                                *)
(***************************************************************************)
EXTENDS Integers, Sequences, FiniteSets, TLC

VARIABLES
    useMocks,          \* client.ts USE_MOCKS (fixed by the build environment)
    dataset,           \* the PredictionRecord list that is served
    overview,          \* Dashboard state: OverviewMetrics | null
    confusionMatrix,   \* Dashboard state: ConfusionMatrix | null
    confidenceCurve,   \* Dashboard state: ConfidenceCurve | null
    errorsByClass,     \* Dashboard state: ErrorsByClass | null
    loadingOverview, loadingMatrix, loadingCurve, loadingErrors,
    tooltip,           \* ErrorsByClassChart: the ratio of the tooltip shown
    filters,           \* the PredictionFilters handed to getPredictions
    params,            \* the URLSearchParams getPredictions sent (real path)
    response,          \* the PaginatedPredictions getPredictions returned
    pc,                \* getPredictions: "call", then "done" or "failed"
    inference,         \* the raw inference results the core was run on
    calibration,       \* ReliabilityDiagram state: CalibrationData | null
    loadingCalibration,\* ReliabilityDiagram state: loading
    calibrationError,  \* ReliabilityDiagram state: error message | null
    onCellClick,       \* ConfusionMatrixDisplay prop: a callback is supplied
    activeSlice,       \* ConfusionMatrixDisplay prop: SliceSelection | null
    clickedCell,       \* the cell << i, j >> of the last click, or null
    sliceCall,         \* the argument onCellClick got from that click, or null
    localFilters,      \* FiltersBar state: the form inputs before applying
    showExportMenu,    \* FiltersBar state
    exportCall,        \* the downloadExport call of the step just taken, or null
    predictions,       \* Dashboard state: PaginatedPredictions | null
    loadingPredictions,\* Dashboard state
    selectedPrediction,\* Dashboard state: PredictionRecord | null
    inflight,          \* the getPredictions requests that have not settled
    outcomes,          \* per request issued: "pending", "ok" or "failed"
    handler,           \* the handler the step just taken ran, or "none"
    served,            \* the calls the serving layer has answered, in order
    notFound           \* what the backend answers for an id it does not hold

\* the evaluation run and the reliability diagram
coreVars == << inference, calibration, loadingCalibration, calibrationError >>

\* the confusion matrix with slice selection
sliceVars == << onCellClick, activeSlice, clickedCell, sliceCall >>

\* the failure explorer: FiltersBar, FailureTable and the predictions
\* state of the Dashboard
tableVars == << localFilters, showExportMenu, exportCall, predictions,
                loadingPredictions, selectedPrediction, inflight, outcomes,
                handler >>

\* the serving layer seen from its callers
serveVars == << served, notFound >>

\* the state of the evaluation run and of the components around the
\* dashboard page
viewVars == << coreVars, sliceVars, tableVars, serveVars >>

vars == << useMocks, dataset, overview, confusionMatrix, confidenceCurve,
           errorsByClass, loadingOverview, loadingMatrix, loadingCurve,
           loadingErrors, tooltip, filters, params, response, pc, viewVars >>

artifactVars == << overview, confusionMatrix, confidenceCurve, errorsByClass,
                   loadingOverview, loadingMatrix, loadingCurve,
                   loadingErrors, tooltip >>

queryVars == << filters, params, response, pc >>

----------------------------------------------------------------------------
(* Bounds of the model *)

\* the evaluation run behind the real backend holds 1..MaxRecords records
MaxRecords == 2

\* the label set of that run is the first NumClasses CIFAR-10 labels
NumClasses == 2

----------------------------------------------------------------------------
(* Generic helpers *)

\* null and undefined: the empty option
Null == {}

Undefined == {}

Some(v) == {v}

Val(opt) == CHOOSE v \in opt : TRUE

Rat(n, d) == [num |-> n, den |-> d]

Min(a, b) == IF a <= b THEN a ELSE b

Max(a, b) == IF a >= b THEN a ELSE b

RECURSIVE SumSeq(_)
SumSeq(s) == IF s = << >> THEN 0 ELSE Head(s) + SumSeq(Tail(s))

RECURSIVE MaxSeq(_)
MaxSeq(s) == IF Len(s) = 1 THEN s[1] ELSE Max(Head(s), MaxSeq(Tail(s)))

\* Math.ceil(a / b) for a >= 0, b > 0
CeilDiv(a, b) == (a + b - 1) \div b

\* Array.prototype.slice(start, end) on a 1-based sequence
Slice(s, start, end) ==
    LET n    == Len(s)
        from == IF start < 0 THEN Max(n + start, 0) ELSE Min(start, n)
        to   == IF end < 0 THEN Max(n + end, 0) ELSE Min(end, n)
    IN  IF from >= to THEN << >> ELSE SubSeq(s, from + 1, to)

----------------------------------------------------------------------------
(* Labels and thresholds *)

CIFAR10_LABELS ==
    << "airplane", "automobile", "bird", "cat", "deer",
       "dog", "frog", "horse", "ship", "truck" >>

\* the threshold the README documents for isHighConfidenceError (0.8)
HIGH_CONF_THRESHOLD == 80

\* the threshold generateMockPredictions compares with (confidence > 0.7)
MOCK_CONF_THRESHOLD == 70

\* the documented maximum of page_size
MAX_PAGE_SIZE == 100

\* the default page and page size of getPredictions
DEFAULT_PAGE == 1

DEFAULT_PAGE_SIZE == 10

----------------------------------------------------------------------------
(* mockData: the artifacts of the mock path *)

\* mockOverviewMetrics with wrongConfident rounded up to 4.8
mockOverviewMetricsMisrounded ==
    [ totalSamples     |-> 10000,
      accuracy         |-> Rat(8847, 10000),
      correctConfident |-> Rat(723, 10),
      correctUnsure    |-> Rat(162, 10),
      wrongUnsure      |-> Rat(68, 10),
      wrongConfident   |-> Rat(48, 10),
      totalFailures    |-> 1153 ]

mockOverviewMetrics ==
    [ totalSamples     |-> 10000,
      accuracy         |-> Rat(8847, 10000),
      correctConfident |-> Rat(723, 10),
      correctUnsure    |-> Rat(162, 10),
      wrongUnsure      |-> Rat(68, 10),
      wrongConfident   |-> Rat(47, 10),
      totalFailures    |-> 1153 ]

mockMatrixRows ==
    <<
        << 912,   8,  22,   4,   6,   2,   3,   5,  28,  10 >>,
        <<   5, 948,   2,   3,   1,   2,   1,   3,   7,  28 >>,
        <<  18,   3, 842,  32,  28,  22,  26,  14,   8,   7 >>,
        <<   6,   4,  28, 798,  18,  92,  24,  16,   6,   8 >>,
        <<   8,   2,  32,  18, 876,  12,  22,  18,   6,   6 >>,
        <<   4,   3,  18, 112,  22, 802,   8,  22,   4,   5 >>,
        <<   6,   2,  28,  24,  18,   8, 896,   6,   6,   6 >>,
        <<   8,   4,  12,  18,  28,  32,   4, 878,   6,  10 >>,
        <<  32,  12,   6,   4,   4,   2,   4,   4, 918,  14 >>,
        <<   8,  42,   4,   6,   4,   4,   2,   8,  18, 904 >> >>

\* mockConfusionMatrix with one cell mistyped (912 entered as 921)
mockConfusionMatrixMistyped ==
    [ labels |-> CIFAR10_LABELS,
      matrix |-> [ mockMatrixRows EXCEPT ![1][1] = 921 ] ]

mockConfusionMatrix ==
    [ labels |-> CIFAR10_LABELS,
      matrix |-> mockMatrixRows ]

CurvePoint(lo, hi, total, correct, incorrect, acc) ==
    [ confidenceMin    |-> lo,
      confidenceMax    |-> hi,
      totalCount       |-> total,
      correctCount     |-> correct,
      incorrectCount   |-> incorrect,
      accuracyInBucket |-> acc ]

\* mockConfidenceCurve with the accuracy of the first bucket left at 0
mockConfidenceCurveUnfilled ==
    << CurvePoint( 0,  20,   89,   18,  71, Rat(0, 1000)),
       CurvePoint(20,  30,  156,   52, 104, Rat(333, 1000)),
       CurvePoint(30,  40,  312,  134, 178, Rat(429, 1000)),
       CurvePoint(40,  50,  524,  283, 241, Rat(540, 1000)),
       CurvePoint(50,  60,  687,  446, 241, Rat(649, 1000)),
       CurvePoint(60,  70, 1023,  778, 245, Rat(760, 1000)),
       CurvePoint(70,  80, 1456, 1281, 175, Rat(880, 1000)),
       CurvePoint(80,  90, 2234, 2078, 156, Rat(930, 1000)),
       CurvePoint(90, 100, 3519, 3377, 142, Rat(960, 1000)) >>

mockConfidenceCurve ==
    << CurvePoint( 0,  20,   89,   18,  71, Rat(202, 1000)),
       CurvePoint(20,  30,  156,   52, 104, Rat(333, 1000)),
       CurvePoint(30,  40,  312,  134, 178, Rat(429, 1000)),
       CurvePoint(40,  50,  524,  283, 241, Rat(540, 1000)),
       CurvePoint(50,  60,  687,  446, 241, Rat(649, 1000)),
       CurvePoint(60,  70, 1023,  778, 245, Rat(760, 1000)),
       CurvePoint(70,  80, 1456, 1281, 175, Rat(880, 1000)),
       CurvePoint(80,  90, 2234, 2078, 156, Rat(930, 1000)),
       CurvePoint(90, 100, 3519, 3377, 142, Rat(960, 1000)) >>

ClassEntry(name, total, correct, errors, rate, avgConf) ==
    [ className             |-> name,
      totalSamples          |-> total,
      correctCount          |-> correct,
      errorCount            |-> errors,
      errorRate             |-> rate,
      avgConfidenceOnErrors |-> avgConf ]

mockErrorsByClass ==
    << ClassEntry("airplane",   1000, 912,  88, Rat( 88, 1000), Rat(52, 100)),
       ClassEntry("automobile", 1000, 948,  52, Rat( 52, 1000), Rat(61, 100)),
       ClassEntry("bird",       1000, 842, 158, Rat(158, 1000), Rat(48, 100)),
       ClassEntry("cat",        1000, 798, 202, Rat(202, 1000), Rat(54, 100)),
       ClassEntry("deer",       1000, 876, 124, Rat(124, 1000), Rat(45, 100)),
       ClassEntry("dog",        1000, 802, 198, Rat(198, 1000), Rat(58, 100)),
       ClassEntry("frog",       1000, 896, 104, Rat(104, 1000), Rat(42, 100)),
       ClassEntry("horse",      1000, 878, 122, Rat(122, 1000), Rat(51, 100)),
       ClassEntry("ship",       1000, 918,  82, Rat( 82, 1000), Rat(55, 100)),
       ClassEntry("truck",      1000, 904,  96, Rat( 96, 1000), Rat(63, 100)) >>

----------------------------------------------------------------------------
(* mockData: the prediction list of the mock path *)

confusionPairs ==
    << << "cat", "dog", 78 >>,          << "dog", "cat", 72 >>,
       << "cat", "dog", 85 >>,          << "dog", "cat", 91 >>,
       << "bird", "airplane", 65 >>,    << "airplane", "bird", 58 >>,
       << "truck", "automobile", 82 >>, << "automobile", "truck", 76 >>,
       << "deer", "horse", 69 >>,       << "horse", "deer", 71 >>,
       << "bird", "frog", 45 >>,        << "frog", "bird", 52 >>,
       << "cat", "frog", 38 >>,         << "ship", "airplane", 74 >>,
       << "airplane", "ship", 68 >>,    << "deer", "bird", 42 >>,
       << "bird", "deer", 55 >>,        << "dog", "deer", 47 >>,
       << "cat", "bird", 61 >>,         << "truck", "ship", 59 >>,
       << "cat", "dog", 93 >>,          << "dog", "cat", 88 >>,
       << "bird", "cat", 44 >>,         << "frog", "deer", 51 >>,
       << "horse", "dog", 63 >>,        << "automobile", "ship", 48 >>,
       << "ship", "truck", 72 >>,       << "deer", "frog", 39 >>,
       << "cat", "deer", 56 >>,         << "dog", "horse", 67 >>,
       << "bird", "frog", 73 >>,        << "airplane", "truck", 41 >>,
       << "truck", "airplane", 55 >>,   << "frog", "cat", 62 >>,
       << "horse", "deer", 79 >>,       << "cat", "dog", 81 >>,
       << "dog", "cat", 77 >>,          << "bird", "airplane", 86 >>,
       << "automobile", "truck", 92 >>, << "ship", "airplane", 64 >> >>

correctPredictions ==
    << << "airplane", 95 >>, << "automobile", 89 >>, << "bird", 72 >>,
       << "cat", 84 >>,      << "deer", 78 >>,       << "dog", 91 >>,
       << "frog", 96 >>,     << "horse", 83 >>,      << "ship", 88 >>,
       << "truck", 79 >> >>

\* a PredictionRecord (imageUrl is not modelled)
Record(id, trueLabel, predictedLabel, confidence, isCorrect, isHCE, top) ==
    [ id                    |-> id,
      trueLabel             |-> trueLabel,
      predictedLabel        |-> predictedLabel,
      confidence            |-> confidence,
      isCorrect             |-> isCorrect,
      isHighConfidenceError |-> isHCE,
      topPredictions        |-> top ]

\* an entry of topPredictions; the probability is an integer number of
\* ten-thousandths (0.132 is 1320, the confidence 0.78 is 7800)
TopEntry(label, probability) ==
    [ label |-> label, probability |-> probability ]

\* CIFAR10_LABELS.find((l, i) => !excluded.includes(l) && i >= from - 1)
\* || 'other'
FindLabel(excluded, from) ==
    LET hits == { i \in from..Len(CIFAR10_LABELS) :
                    CIFAR10_LABELS[i] \notin excluded }
    IN  IF hits = {} THEN "other"
        ELSE CIFAR10_LABELS[CHOOSE i \in hits : \A j \in hits : i <= j]

\* Number.prototype.toString(): the decimal digits of n >= 0
RECURSIVE Digits(_)
Digits(n) == IF n < 10 THEN << n >> ELSE Append(Digits(n \div 10), n % 10)

\* String.prototype.padStart(targetLength, fill) on a digit string
PadStart(str, targetLength, fill) ==
    IF Len(str) >= targetLength THEN str
    ELSE [ i \in 1..(targetLength - Len(str)) |-> fill ] \o str

\* the template literal `${prefix}${index.toString().padStart(4, '0')}`
PredId(prefix, index) == << prefix >> \o PadStart(Digits(index), 4, 0)

\* the record pushed for confusionPairs[index + 1], with the true label
\* ranked first in topPredictions
MockErrorRecordTrueLabelFirst(index) ==
    [ id                    |-> PredId("pred_", index),
      trueLabel             |-> confusionPairs[index + 1][1],
      predictedLabel        |-> confusionPairs[index + 1][2],
      confidence            |-> confusionPairs[index + 1][3],
      isCorrect             |-> FALSE,
      isHighConfidenceError |-> confusionPairs[index + 1][3] > 70,
      topPredictions        |->
        << [ label       |-> confusionPairs[index + 1][1],
             probability |-> (100 - confusionPairs[index + 1][3]) * 60 ],
           [ label       |-> confusionPairs[index + 1][2],
             probability |-> 100 * confusionPairs[index + 1][3] ],
           [ label       |-> "airplane", probability |-> 200 ] >> ]

\* the record pushed for confusionPairs[index + 1]
MockErrorRecord(index) ==
    LET pair == confusionPairs[index + 1]
        rest == 100 - pair[3]
    IN  Record(PredId("pred_", index), pair[1], pair[2], pair[3],
               FALSE, pair[3] > MOCK_CONF_THRESHOLD,
               << TopEntry(pair[2], 100 * pair[3]),
                  TopEntry(pair[1], Max(500, rest * 60)),
                  TopEntry(FindLabel({ pair[1], pair[2] }, 1),
                           Max(200, rest * 30)) >>)

\* the record pushed for correctPredictions[index + 1] if its id had the
\* prefix of the error records
MockCorrectRecordSamePrefix(index) ==
    [ MockErrorRecord(index) EXCEPT
        !.trueLabel = correctPredictions[index + 1][1],
        !.predictedLabel = correctPredictions[index + 1][1],
        !.confidence = correctPredictions[index + 1][2],
        !.isCorrect = TRUE,
        !.isHighConfidenceError = FALSE ]

\* the record pushed for correctPredictions[index + 1]
MockCorrectRecord(index) ==
    LET pair == correctPredictions[index + 1]
        rest == 100 - pair[2]
    IN  Record(PredId("pred_correct_", index), pair[1], pair[1], pair[2],
               TRUE, FALSE,
               << TopEntry(pair[1], 100 * pair[2]),
                  TopEntry(FindLabel({ pair[1] }, 1), rest * 50),
                  TopEntry(FindLabel({ pair[1] }, 2), rest * 30) >>)

generateMockPredictions ==
    [ i \in 1..Len(confusionPairs) |-> MockErrorRecord(i - 1) ]
    \o [ i \in 1..Len(correctPredictions) |-> MockCorrectRecord(i - 1) ]

mockPredictions == generateMockPredictions

----------------------------------------------------------------------------
(* The evaluation core behind the real backend.  Its code is not part of   *)
(* the frontend sources; it is modelled from the design document.          *)

\* the label set of the evaluation run
Labels == SubSeq(CIFAR10_LABELS, 1, NumClasses)

\* the class-probability vectors a raw inference result is drawn from,
\* in hundredths: all mass on the first label, 0.2 / 0.8 on the first two
\* labels, and an exact tie of the first two labels
ProbabilityVectors ==
    { [ k \in 1..NumClasses |-> IF k = 1 THEN 100 ELSE 0 ],
      [ k \in 1..NumClasses |-> IF k = 1 THEN 20 ELSE IF k = 2 THEN 80 ELSE 0 ],
      [ k \in 1..NumClasses |-> IF k <= 2 THEN 50 ELSE 0 ] }

\* one raw inference result per test item: the index of the true label
\* and the full class-probability vector
RawResults ==
    { [ trueLabel |-> t, classProbabilities |-> v ] :
        t \in 1..NumClasses, v \in ProbabilityVectors }

RawRuns == UNION { [1..n -> RawResults] : n \in 1..MaxRecords }

\* the number of ranked predictions a record keeps
TOP_K == 3

\* the index of the maximum probability, the highest index on exact ties
ArgMaxLast(probs) ==
    CHOOSE i \in DOMAIN probs :
        \A j \in DOMAIN probs :
            probs[j] < probs[i] \/ (probs[j] = probs[i] /\ i >= j)

\* the index of the maximum probability, the lowest index on exact ties
ArgMax(probs) ==
    CHOOSE i \in DOMAIN probs :
        \A j \in DOMAIN probs :
            probs[j] < probs[i] \/ (probs[j] = probs[i] /\ i <= j)

\* the position of label index i when the (label, probability) pairs are
\* sorted by probability descending, label index ascending on ties
Rank(probs, i) ==
    1 + Cardinality({ j \in DOMAIN probs :
                        probs[j] > probs[i]
                        \/ (probs[j] = probs[i] /\ j < i) })

\* top-k extraction: the first k pairs of that order
TopK(probs, k) ==
    [ n \in 1..Min(k, Len(probs)) |->
        LET i == CHOOSE i \in DOMAIN probs : Rank(probs, i) = n
        IN  TopEntry(Labels[i], 100 * probs[i]) ]

\* PredictionRecord builder
BuildRecord(index, raw) ==
    LET probs == raw.classProbabilities
        t     == Labels[raw.trueLabel]
        p     == Labels[ArgMax(probs)]
        conf  == probs[ArgMax(probs)]
    IN  Record(<< "test", index >>, t, p, conf, t = p,
               t # p /\ conf >= HIGH_CONF_THRESHOLD,
               TopK(probs, TOP_K))

BuildRecords(run) == [ i \in 1..Len(run) |-> BuildRecord(i - 1, run[i]) ]

\* the positions of the records with true label t
WithTrueLabel(records, t) ==
    { i \in 1..Len(records) : records[i].trueLabel = t }

\* the positions of the records with predicted label p
WithPredictedLabel(records, p) ==
    { i \in 1..Len(records) : records[i].predictedLabel = p }

\* the positions of the correct records
CorrectOnes(records) == { i \in 1..Len(records) : records[i].isCorrect }

\* the positions of the records with confidence >= HIGH_CONF_THRESHOLD
ConfidentOnes(records) ==
    { i \in 1..Len(records) : records[i].confidence >= HIGH_CONF_THRESHOLD }

\* the sum of the confidences of the records at the positions in at
SumConfidence(records, at) ==
    SumSeq([ i \in 1..Len(records) |->
               IF i \in at THEN records[i].confidence ELSE 0 ])

\* Confusion Aggregator: M[t][p] counts the records with true label t
\* and predicted label p
ConfusionAggregator(records) ==
    [ labels |-> Labels,
      matrix |->
        [ t \in 1..NumClasses |->
            [ p \in 1..NumClasses |->
                Cardinality(WithTrueLabel(records, Labels[t])
                            \cap WithPredictedLabel(records, Labels[p])) ] ] ]

\* the number of buckets and the bucket width of the confidence curve
NUM_BUCKETS == 10

BUCKET_WIDTH == 10

\* bucket index = floor(confidence / width), clamped to the last bucket
BucketIndex(confidence) ==
    Min(confidence \div BUCKET_WIDTH, NUM_BUCKETS - 1)

\* the positions of the records that fall into bucket b (counted from 0)
InBucket(records, b) ==
    { i \in 1..Len(records) : BucketIndex(records[i].confidence) = b }

\* Confidence Curve Binner: the buckets in ascending confidence order
ConfidenceCurveBinner(records) ==
    [ b \in 1..NUM_BUCKETS |->
        LET members == InBucket(records, b - 1)
            total   == Cardinality(members)
            correct == Cardinality(members \cap CorrectOnes(records))
        IN  CurvePoint((b - 1) * BUCKET_WIDTH, b * BUCKET_WIDTH,
                       total, correct,
                       Cardinality(members \ CorrectOnes(records)),
                       IF total = 0 THEN Rat(0, 1)
                       ELSE Rat(correct, total)) ]

\* Error-by-Class Aggregator: one entry per label, in label-set order
ErrorByClassAggregator(records) ==
    [ k \in 1..NumClasses |->
        LET members == WithTrueLabel(records, Labels[k])
            wrong   == members \ CorrectOnes(records)
            total   == Cardinality(members)
            errors  == Cardinality(wrong)
        IN  ClassEntry(Labels[k], total,
                       Cardinality(members \cap CorrectOnes(records)),
                       errors,
                       IF total = 0 THEN Rat(0, 1) ELSE Rat(errors, total),
                       IF errors = 0 THEN Rat(0, 1)
                       ELSE Rat(SumConfidence(records, wrong),
                                100 * errors)) ]

\* Overview Summarizer: accuracy and the four-way breakdown in percent
OverviewSummarizer(records) ==
    LET all          == 1..Len(records)
        total        == Len(records)
        correct      == CorrectOnes(records)
        confident    == ConfidentOnes(records)
        correctCount == Cardinality(correct)
        Percent(at)  == Rat(100 * Cardinality(at), total)
    IN  [ totalSamples     |-> total,
          accuracy         |-> Rat(correctCount, total),
          correctConfident |-> Percent(correct \cap confident),
          correctUnsure    |-> Percent(correct \ confident),
          wrongUnsure      |-> Percent((all \ correct) \ confident),
          wrongConfident   |-> Percent((all \ correct) \cap confident),
          totalFailures    |-> total - correctCount ]

----------------------------------------------------------------------------
(* JavaScript truthiness of an optional field *)

TruthyString(opt) == opt \notin { {}, {""} }

TruthyNumber(opt) == opt \notin { {}, {0} }

TruthyBool(opt) == opt = {TRUE}

\* opt || fallback, for a number
OrElse(opt, fallback) == IF TruthyNumber(opt) THEN Val(opt) ELSE fallback

----------------------------------------------------------------------------
(* mockData.getMockPaginatedPredictions *)

ApplyMockFilters(records, f) ==
    LET TrueLabelIs(p) == p.trueLabel = Val(f.trueLabel)
        PredLabelIs(p) == p.predictedLabel = Val(f.predictedLabel)
        AtLeast(p)     == p.confidence >= Val(f.minConfidence)
        AtMost(p)      == p.confidence <= Val(f.maxConfidence)
        IsError(p)     == ~p.isCorrect
        IsHCE(p)       == p.isHighConfidenceError
        f1 == IF TruthyString(f.trueLabel)
              THEN SelectSeq(records, TrueLabelIs) ELSE records
        f2 == IF TruthyString(f.predictedLabel)
              THEN SelectSeq(f1, PredLabelIs) ELSE f1
        f3 == IF f.minConfidence # Undefined
              THEN SelectSeq(f2, AtLeast) ELSE f2
        f4 == IF f.maxConfidence # Undefined
              THEN SelectSeq(f3, AtMost) ELSE f3
        f5 == IF TruthyBool(f.onlyErrors)
              THEN SelectSeq(f4, IsError) ELSE f4
    IN  IF TruthyBool(f.onlyHighConfidenceErrors)
        THEN SelectSeq(f5, IsHCE) ELSE f5

\* the page of `filtered` if the first page started at pageSize
PaginateFromPage(filtered, page, pageSize) ==
    [ predictions |-> Slice(filtered, page * pageSize,
                            page * pageSize + pageSize),
      total       |-> Len(filtered),
      page        |-> page,
      pageSize    |-> pageSize,
      totalPages  |-> CeilDiv(Len(filtered), pageSize) ]

\* the page of `filtered` that starts at (page - 1) * pageSize
Paginate(filtered, page, pageSize) ==
    LET total      == Len(filtered)
        startIndex == (page - 1) * pageSize
    IN  [ predictions |-> Slice(filtered, startIndex, startIndex + pageSize),
          total       |-> total,
          page        |-> page,
          pageSize    |-> pageSize,
          totalPages  |-> CeilDiv(total, pageSize) ]

getMockPaginatedPredictions(records, page, pageSize, f) ==
    Paginate(ApplyMockFilters(records, f), page, pageSize)

----------------------------------------------------------------------------
(* client.getPredictions on the real path: the query string *)

\* the parameters GET /api/predictions is documented to read
DocumentedParams ==
    { "true_label", "pred_label", "min_conf", "max_conf", "only_errors",
      "only_high_confidence_errors", "page", "page_size", "sort" }

\* the parameters getPredictions can set
SentParams ==
    { "true_label", "predicted_label", "min_confidence", "max_confidence",
      "only_errors", "only_high_confidence_errors", "page", "page_size" }

ParamNames == DocumentedParams \cup SentParams

\* Number.prototype.toString and its inverse, the server's number parser
NumberToString(n) == << "str", n >>

ParseNumber(str) == str[2]

\* new URLSearchParams() followed by the conditional params.set calls
BuildParams(f) ==
    [ name \in ParamNames |->
        CASE name = "true_label" ->
               IF TruthyString(f.trueLabel) THEN f.trueLabel ELSE Undefined
          [] name = "predicted_label" ->
               IF TruthyString(f.predictedLabel)
               THEN f.predictedLabel ELSE Undefined
          [] name = "min_confidence" ->
               IF f.minConfidence # Undefined
               THEN Some(NumberToString(Val(f.minConfidence))) ELSE Undefined
          [] name = "max_confidence" ->
               IF f.maxConfidence # Undefined
               THEN Some(NumberToString(Val(f.maxConfidence))) ELSE Undefined
          [] name = "only_errors" ->
               IF TruthyBool(f.onlyErrors) THEN Some("true") ELSE Undefined
          [] name = "only_high_confidence_errors" ->
               IF TruthyBool(f.onlyHighConfidenceErrors)
               THEN Some("true") ELSE Undefined
          [] name = "page" ->
               IF TruthyNumber(f.page)
               THEN Some(NumberToString(Val(f.page))) ELSE Undefined
          [] name = "page_size" ->
               IF TruthyNumber(f.pageSize)
               THEN Some(NumberToString(Val(f.pageSize))) ELSE Undefined
          [] OTHER -> Undefined ]

NoParams == [ name \in ParamNames |-> Undefined ]

----------------------------------------------------------------------------
(* GET /api/predictions of the backend, from its documented parameters.    *)
(* A parameter the endpoint does not document is ignored.                  *)

\* the values of the `sort` parameter
SortKeys == { "confidence_asc", "confidence_desc" }

\* record a comes before record b under the sort key
Before(a, b, key) ==
    IF key = "confidence_asc" THEN a.confidence < b.confidence
    ELSE a.confidence > b.confidence

\* a stable sort of the records by the sort key
RECURSIVE SortByConfidence(_, _)
SortByConfidence(records, key) ==
    IF records = << >> THEN << >>
    ELSE LET r      == records[Len(records)]
             sorted == SortByConfidence(SubSeq(records, 1, Len(records) - 1),
                                        key)
             after  == { i \in 1..Len(sorted) : Before(r, sorted[i], key) }
             at     == IF after = {} THEN Len(sorted) + 1
                       ELSE CHOOSE i \in after : \A j \in after : i <= j
         IN  SubSeq(sorted, 1, at - 1) \o << r >>
             \o SubSeq(sorted, at, Len(sorted))

ApiPredictions(records, q) ==
    LET TrueLabelIs(p) == p.trueLabel = Val(q["true_label"])
        PredLabelIs(p) == p.predictedLabel = Val(q["pred_label"])
        AtLeast(p)     == p.confidence >= ParseNumber(Val(q["min_conf"]))
        AtMost(p)      == p.confidence <= ParseNumber(Val(q["max_conf"]))
        IsError(p)     == ~p.isCorrect
        IsHCE(p)       == p.isHighConfidenceError
        f1 == IF q["true_label"] # Undefined
              THEN SelectSeq(records, TrueLabelIs) ELSE records
        f2 == IF q["pred_label"] # Undefined
              THEN SelectSeq(f1, PredLabelIs) ELSE f1
        f3 == IF q["min_conf"] # Undefined
              THEN SelectSeq(f2, AtLeast) ELSE f2
        f4 == IF q["max_conf"] # Undefined
              THEN SelectSeq(f3, AtMost) ELSE f3
        f5 == IF q["only_errors"] = {"true"}
              THEN SelectSeq(f4, IsError) ELSE f4
        f6 == IF q["only_high_confidence_errors"] = {"true"}
              THEN SelectSeq(f5, IsHCE) ELSE f5
        f7 == IF q["sort"] = Undefined THEN f6
              ELSE SortByConfidence(f6, Val(q["sort"]))
        page     == IF q["page"] = Undefined THEN DEFAULT_PAGE
                    ELSE ParseNumber(Val(q["page"]))
        pageSize == IF q["page_size"] = Undefined THEN DEFAULT_PAGE_SIZE
                    ELSE Min(ParseNumber(Val(q["page_size"])), MAX_PAGE_SIZE)
    IN  Paginate(f7, page, pageSize)

----------------------------------------------------------------------------
(* What the four artifact endpoints return *)

\* the artifacts the backend computed from its record list at start-up
ApiOverview == OverviewSummarizer(dataset)

ApiConfusionMatrix == ConfusionAggregator(dataset)

ApiConfidenceCurve == ConfidenceCurveBinner(dataset)

ApiErrorsByClass == ErrorByClassAggregator(dataset)

getOverview == IF useMocks THEN mockOverviewMetrics ELSE ApiOverview

getConfusionMatrix ==
    IF useMocks THEN mockConfusionMatrix ELSE ApiConfusionMatrix

getConfidenceCurve ==
    IF useMocks THEN mockConfidenceCurve ELSE ApiConfidenceCurve

getErrorsByClass == IF useMocks THEN mockErrorsByClass ELSE ApiErrorsByClass

----------------------------------------------------------------------------
(* The ratios the components compute from an artifact *)

\* [...data].sort((a, b) => b.errorCount - a.errorCount), a stable sort
RECURSIVE InsertByErrorCount(_, _)
InsertByErrorCount(sorted, item) ==
    IF sorted = << >> THEN << item >>
    ELSE IF Head(sorted).errorCount >= item.errorCount
         THEN << Head(sorted) >> \o InsertByErrorCount(Tail(sorted), item)
         ELSE << item >> \o sorted

RECURSIVE SortByErrorCount(_)
SortByErrorCount(data) ==
    IF data = << >> THEN << >>
    ELSE InsertByErrorCount(SortByErrorCount(SubSeq(data, 1, Len(data) - 1)),
                            data[Len(data)])

RECURSIVE InsertByErrorRate(_, _)
InsertByErrorRate(sorted, item) ==
    IF sorted = << >> THEN << item >>
    ELSE IF Head(sorted).errorRate.num * item.errorRate.den
              >= item.errorRate.num * Head(sorted).errorRate.den
         THEN << Head(sorted) >> \o InsertByErrorRate(Tail(sorted), item)
         ELSE << item >> \o sorted

\* ErrorsByClassChart.tsx: sort((a, b) => b.errorRate - a.errorRate)
RECURSIVE SortByErrorRate(_)
SortByErrorRate(data) ==
    IF data = << >> THEN << >>
    ELSE InsertByErrorRate(SortByErrorRate(SubSeq(data, 1, Len(data) - 1)),
                           data[Len(data)])

\* what data.sort(...) would leave in the array it is called on
DataAfterSortInPlace(data, sortedData) == sortedData

\* what [...data].sort(...) leaves in `data`: the copy is sorted
DataAfterSort(data, sortedData) == data

\* ErrorsByClassChart: chartData of the sorted entries
ChartData(data) ==
    LET sortedData == SortByErrorCount(data)
    IN  [ i \in 1..Len(sortedData) |->
            [ className |-> sortedData[i].className,
              errors    |-> sortedData[i].errorCount,
              total     |-> sortedData[i].totalSamples ] ]

\* ErrorsByClassChart: maxErrors = Math.max(...chartData.map(d => d.errors))
MaxErrors(chartData) ==
    MaxSeq([ i \in 1..Len(chartData) |-> chartData[i].errors ])

\* ErrorsByClassChart.getBarColor: ratio = errors / maxErrors
BarRatio(errors, maxErrors) == Rat(errors, maxErrors)

\* a comparison with NaN (0 / 0) is false, which leaves the last colour
getBarColor(errors, maxErrors) ==
    LET ratio == BarRatio(errors, maxErrors)
    IN  IF ratio.den = 0 THEN "#22c55e"
        ELSE IF 10 * ratio.num > 7 * ratio.den THEN "#ef4444"
        ELSE IF 10 * ratio.num > 4 * ratio.den THEN "#f59e0b"
        ELSE "#22c55e"

\* ErrorsByClassChart, Tooltip formatter: rate = (numValue / total) * 100
TooltipRate(entry) == Rat(entry.errors, entry.total)

\* ConfusionMatrixChart: maxVal = Math.max(...data.matrix.flat())
MaxVal(data) ==
    MaxSeq([ i \in 1..Len(data.matrix) |-> MaxSeq(data.matrix[i]) ])

\* ConfusionMatrixChart.getColor: intensity = value / maxVal
Intensity(value, maxVal) == Rat(value, maxVal)

\* MetricCards, Total Failures card: totalFailures / totalSamples
ErrorRateCard(metrics) == Rat(metrics.totalFailures, metrics.totalSamples)

\* FailureBreakdownBar: the widths of the four segments, in percent
SegmentWidths(metrics) ==
    << metrics.correctConfident, metrics.correctUnsure,
       metrics.wrongUnsure, metrics.wrongConfident >>

----------------------------------------------------------------------------
(* Dashboard: the four artifact fetches made on mount *)

\* the loading flag after a request settled if no callback cleared it
FlagAfterSettleStuck(flag) == flag

\* the loading flag after .finally(() => setLoading...(false))
FlagAfterSettle(flag) == FALSE

OverviewLoaded ==
    /\ loadingOverview
    /\ overview' = Some(getOverview)
    /\ loadingOverview' = FlagAfterSettle(loadingOverview)
    /\ UNCHANGED << viewVars, useMocks, dataset, confusionMatrix, confidenceCurve,
                    errorsByClass, loadingMatrix, loadingCurve,
                    loadingErrors, tooltip, queryVars >>

\* fetchApi throws: .catch(console.error) and .finally clear the flag
OverviewFailed ==
    /\ loadingOverview
    /\ ~useMocks
    /\ loadingOverview' = FlagAfterSettle(loadingOverview)
    /\ UNCHANGED << viewVars, useMocks, dataset, overview, confusionMatrix,
                    confidenceCurve, errorsByClass, loadingMatrix,
                    loadingCurve, loadingErrors, tooltip, queryVars >>

MatrixLoaded ==
    /\ loadingMatrix
    /\ confusionMatrix' = Some(getConfusionMatrix)
    /\ loadingMatrix' = FlagAfterSettle(loadingMatrix)
    /\ UNCHANGED << viewVars, useMocks, dataset, overview, confidenceCurve,
                    errorsByClass, loadingOverview, loadingCurve,
                    loadingErrors, tooltip, queryVars >>

MatrixFailed ==
    /\ loadingMatrix
    /\ ~useMocks
    /\ loadingMatrix' = FlagAfterSettle(loadingMatrix)
    /\ UNCHANGED << viewVars, useMocks, dataset, overview, confusionMatrix,
                    confidenceCurve, errorsByClass, loadingOverview,
                    loadingCurve, loadingErrors, tooltip, queryVars >>

CurveLoaded ==
    /\ loadingCurve
    /\ confidenceCurve' = Some(getConfidenceCurve)
    /\ loadingCurve' = FlagAfterSettle(loadingCurve)
    /\ UNCHANGED << viewVars, useMocks, dataset, overview, confusionMatrix,
                    errorsByClass, loadingOverview, loadingMatrix,
                    loadingErrors, tooltip, queryVars >>

CurveFailed ==
    /\ loadingCurve
    /\ ~useMocks
    /\ loadingCurve' = FlagAfterSettle(loadingCurve)
    /\ UNCHANGED << viewVars, useMocks, dataset, overview, confusionMatrix,
                    confidenceCurve, errorsByClass, loadingOverview,
                    loadingMatrix, loadingErrors, tooltip, queryVars >>

ErrorsLoaded ==
    /\ loadingErrors
    /\ errorsByClass' = Some(getErrorsByClass)
    /\ loadingErrors' = FlagAfterSettle(loadingErrors)
    /\ UNCHANGED << viewVars, useMocks, dataset, overview, confusionMatrix,
                    confidenceCurve, loadingOverview, loadingMatrix,
                    loadingCurve, tooltip, queryVars >>

ErrorsFailed ==
    /\ loadingErrors
    /\ ~useMocks
    /\ loadingErrors' = FlagAfterSettle(loadingErrors)
    /\ UNCHANGED << viewVars, useMocks, dataset, overview, confusionMatrix,
                    confidenceCurve, errorsByClass, loadingOverview,
                    loadingMatrix, loadingCurve, tooltip, queryVars >>

\* ErrorsByClassChart: the pointer moves onto a bar and the Tooltip
\* formatter runs for the entry of that bar
HoverBar ==
    /\ ~loadingErrors
    /\ errorsByClass # Null
    /\ \E i \in 1..Len(Val(errorsByClass)) :
         tooltip' = Some(TooltipRate(ChartData(Val(errorsByClass))[i]))
    /\ errorsByClass' =
           Some(DataAfterSort(Val(errorsByClass),
                              SortByErrorCount(Val(errorsByClass))))
    /\ UNCHANGED << viewVars, useMocks, dataset, overview, confusionMatrix,
                    confidenceCurve, loadingOverview,
                    loadingMatrix, loadingCurve, loadingErrors, queryVars >>

\* ErrorsByClassChart.tsx renders the loaded artifact sorted by error rate
RenderErrorRateChart ==
    /\ ~loadingErrors
    /\ errorsByClass # Null
    /\ errorsByClass' =
           Some(DataAfterSort(Val(errorsByClass),
                              SortByErrorRate(Val(errorsByClass))))
    /\ UNCHANGED << viewVars, useMocks, dataset, overview, confusionMatrix,
                    confidenceCurve, loadingOverview, loadingMatrix,
                    loadingCurve, loadingErrors, tooltip, queryVars >>

----------------------------------------------------------------------------
(* client.getPredictions *)

GetPredictionsMock ==
    /\ pc = "call"
    /\ useMocks
    /\ response' = Some(getMockPaginatedPredictions(
                            dataset,
                            OrElse(filters.page, DEFAULT_PAGE),
                            OrElse(filters.pageSize, DEFAULT_PAGE_SIZE),
                            filters))
    /\ pc' = "done"
    /\ UNCHANGED << viewVars, useMocks, dataset, artifactVars, filters, params >>

GetPredictionsReal ==
    /\ pc = "call"
    /\ ~useMocks
    /\ params' = BuildParams(filters)
    /\ response' = Some(ApiPredictions(dataset, params'))
    /\ pc' = "done"
    /\ UNCHANGED << viewVars, useMocks, dataset, artifactVars, filters >>

\* fetchApi throws on a response that is not ok: the promise is rejected
GetPredictionsFailed ==
    /\ pc = "call"
    /\ ~useMocks
    /\ params' = BuildParams(filters)
    /\ pc' = "failed"
    /\ UNCHANGED << viewVars, useMocks, dataset, artifactVars, filters, response >>

----------------------------------------------------------------------------
(* The dashboard: every artifact is loading, the first predictions query   *)
(* is about to be made with the initial filters.                           *)

Filters(t, p, lo, hi, errors, hce, page, size) ==
    [ trueLabel                |-> t,
      predictedLabel           |-> p,
      minConfidence            |-> lo,
      maxConfidence            |-> hi,
      onlyErrors               |-> errors,
      onlyHighConfidenceErrors |-> hce,
      page                     |-> page,
      pageSize                 |-> size ]

InitialFilters ==
    Filters(Undefined, Undefined, Undefined, Undefined,
            Some(TRUE), Undefined, Some(1), Some(10))

\* the mock path serves the mock list; the real backend serves the
\* records the core built from an evaluation run
InitDataset ==
    \/ /\ useMocks = TRUE
       /\ inference = << >>
       /\ dataset = mockPredictions
    \/ /\ useMocks = FALSE
       /\ inference \in RawRuns
       /\ dataset = BuildRecords(inference)

\* a getPredictions call that has not settled: its number and argument
Request(seq, f) == [ seq |-> seq, filters |-> f ]

\* the failure explorer once the Dashboard has mounted: the effect on
\* fetchPredictions has made the first request with the initial filters
InitTable ==
    /\ localFilters = InitialFilters
    /\ showExportMenu = FALSE
    /\ exportCall = Null
    /\ predictions = Null
    /\ loadingPredictions = TRUE
    /\ selectedPrediction = Null
    /\ inflight = { Request(1, InitialFilters) }
    /\ outcomes = << "pending" >>
    /\ handler = "none"

\* ReliabilityDiagram before its fetch has settled; the Dashboard page
\* renders ConfusionMatrixDisplay without a slice callback
InitPage ==
    /\ calibration = Null
    /\ loadingCalibration = TRUE
    /\ calibrationError = Null
    /\ onCellClick = FALSE
    /\ activeSlice = Null
    /\ clickedCell = Null
    /\ sliceCall = Null
    /\ InitTable

\* the page, with no call made to the serving layer by another caller
InitView ==
    /\ InitPage
    /\ served = << >>
    /\ notFound = "error"

InitArtifacts ==
    /\ overview = Null
    /\ confusionMatrix = Null
    /\ confidenceCurve = Null
    /\ errorsByClass = Null
    /\ loadingOverview = TRUE
    /\ loadingMatrix = TRUE
    /\ loadingCurve = TRUE
    /\ loadingErrors = TRUE
    /\ tooltip = Null

Init ==
    /\ InitDataset
    /\ InitArtifacts
    /\ InitView
    /\ filters = InitialFilters
    /\ params = NoParams
    /\ response = Null
    /\ pc = "call"

Next ==
    \/ OverviewLoaded
    \/ OverviewFailed
    \/ MatrixLoaded
    \/ MatrixFailed
    \/ CurveLoaded
    \/ CurveFailed
    \/ ErrorsLoaded
    \/ ErrorsFailed
    \/ HoverBar
    \/ RenderErrorRateChart
    \/ GetPredictionsMock
    \/ GetPredictionsReal
    \/ GetPredictionsFailed

Spec == Init /\ [][Next]_vars

----------------------------------------------------------------------------
(* getPredictions as a function of its argument: the filters are drawn     *)
(* from the values below, the record list is the same on both paths.       *)

LabelInputs == { Undefined, Some(""), Some("cat"), Some("dog") }

MinConfidenceInputs == { Undefined, Some(0), Some(72) }

MaxConfidenceInputs == { Undefined, Some(0), Some(79) }

FlagInputs == { Undefined, Some(FALSE), Some(TRUE) }

PageInputs == { Undefined, Some(-1), Some(0), Some(1), Some(2) }

PageSizeInputs == { Undefined, Some(0), Some(3), Some(100), Some(101) }

FilterInputs ==
    { Filters(t, p, lo, hi, e, h, page, size) :
        t \in LabelInputs, p \in LabelInputs,
        lo \in MinConfidenceInputs, hi \in MaxConfidenceInputs,
        e \in FlagInputs, h \in FlagInputs,
        page \in PageInputs, size \in PageSizeInputs }

InitQuery ==
    /\ useMocks \in BOOLEAN
    /\ inference = << >>
    /\ dataset = mockPredictions
    /\ InitArtifacts
    /\ InitView
    /\ filters \in FilterInputs
    /\ params = NoParams
    /\ response = Null
    /\ pc = "call"

NextQuery ==
    \/ GetPredictionsMock
    \/ GetPredictionsReal
    \/ GetPredictionsFailed

SpecQuery == InitQuery /\ [][NextQuery]_vars

----------------------------------------------------------------------------
(* Helpers of the properties *)

\* a record passes every filter of f that is set
Matches(r, f) ==
    /\ TruthyString(f.trueLabel) => r.trueLabel = Val(f.trueLabel)
    /\ TruthyString(f.predictedLabel)
         => r.predictedLabel = Val(f.predictedLabel)
    /\ f.minConfidence # Undefined => r.confidence >= Val(f.minConfidence)
    /\ f.maxConfidence # Undefined => r.confidence <= Val(f.maxConfidence)
    /\ f.onlyErrors = Some(TRUE) => ~r.isCorrect
    /\ f.onlyHighConfidenceErrors = Some(TRUE) => r.isHighConfidenceError

\* the positions of the served list whose record passes f
Selected(f) == { i \in 1..Len(dataset) : Matches(dataset[i], f) }

\* the sum of the cells of a matrix
SumMatrix(m) == SumSeq([ i \in 1..Len(m) |-> SumSeq(m[i]) ])

\* the sum of the diagonal of a square matrix
SumDiagonal(m) == SumSeq([ i \in 1..Len(m) |-> m[i][i] ])

\* the sum of correctCount over the entries of an artifact
SumCorrect(list) == SumSeq([ i \in 1..Len(list) |-> list[i].correctCount ])

\* the sum of totalCount over the buckets of a curve
SumTotals(curve) == SumSeq([ b \in 1..Len(curve) |-> curve[b].totalCount ])

\* the sum of four rationals equals the integer k
SumsTo(rs, k) ==
    LET d == rs[1].den * rs[2].den * rs[3].den * rs[4].den
        n == SumSeq([ i \in 1..4 |-> rs[i].num * (d \div rs[i].den) ])
    IN  n = k * d

\* the rational r lies in [lo, hi]
Within(r, lo, hi) == lo * r.den <= r.num /\ r.num <= hi * r.den

AllLoaded ==
    /\ overview # Null
    /\ confusionMatrix # Null
    /\ confidenceCurve # Null
    /\ errorsByClass # Null

----------------------------------------------------------------------------
(* C1: a predictions query selects exactly the records that pass every     *)
(* filter that is set (true label, predicted label, inclusive confidence   *)
(* bounds where 0 is a bound, errors only, high-confidence errors only);   *)
(* an unset filter excludes nothing and `total` counts the selection.      *)
C1_QuerySelectsConjunction ==
    pc = "done" =>
        LET r == Val(response)
        IN  /\ r.total = Cardinality(Selected(filters))
            /\ \A j \in 1..Len(r.predictions) :
                   \E i \in Selected(filters) : dataset[i] = r.predictions[j]

(* C1 on the mock path alone: the same statement holds of                  *)
(* getMockPaginatedPredictions, and a page that can hold the whole         *)
(* selection holds it in list order.                                       *)
C1_MockQuerySelectsConjunction ==
    (pc = "done" /\ useMocks) =>
        LET r   == Val(response)
            InSelection(p) == Matches(p, filters)
        IN  /\ r.total = Cardinality(Selected(filters))
            /\ \A j \in 1..Len(r.predictions) :
                   \E i \in Selected(filters) : dataset[i] = r.predictions[j]
            /\ (r.page = 1 /\ r.pageSize >= r.total)
                   => r.predictions = SelectSeq(dataset, InSelection)

(* C2: every served record has isHighConfidenceError exactly when it is    *)
(* incorrect and its confidence is at least 0.8.                           *)
C2_HighConfidenceErrorAtThreshold ==
    \A i \in 1..Len(dataset) :
        dataset[i].isHighConfidenceError
            <=> (~dataset[i].isCorrect
                 /\ dataset[i].confidence >= HIGH_CONF_THRESHOLD)

(* C3: the overview agrees with the other artifacts: accuracy is           *)
(* correctCount / totalSamples and totalFailures is totalSamples -         *)
(* correctCount, where correctCount is the diagonal sum of the confusion   *)
(* matrix, the sum of correctCount over the classes and the sum of         *)
(* correctCount over the confidence buckets.                               *)
C3_OverviewAgreesWithArtifacts ==
    AllLoaded =>
        LET o            == Val(overview)
            correctCount == SumDiagonal(Val(confusionMatrix).matrix)
        IN  /\ o.accuracy.num * o.totalSamples = correctCount * o.accuracy.den
            /\ o.totalFailures = o.totalSamples - correctCount
            /\ correctCount = SumCorrect(Val(errorsByClass))
            /\ correctCount = SumCorrect(Val(confidenceCurve))

(* C4: the confusion matrix is K x K over the ordered label list, its      *)
(* cells sum to the total record count, and the row of each true label     *)
(* sums to the totalSamples of that label in errors-by-class.              *)
C4_ConfusionMatrixSums ==
    confusionMatrix # Null =>
        LET cm == Val(confusionMatrix)
            K  == Len(cm.labels)
        IN  /\ cm.labels = SubSeq(CIFAR10_LABELS, 1, K)
            /\ Len(cm.matrix) = K
            /\ \A t \in 1..K : Len(cm.matrix[t]) = K
            /\ ~useMocks => SumMatrix(cm.matrix) = Len(dataset)
            /\ overview # Null
                 => SumMatrix(cm.matrix) = Val(overview).totalSamples
            /\ errorsByClass # Null =>
                 /\ Len(Val(errorsByClass)) = K
                 /\ \A t \in 1..K :
                      /\ Val(errorsByClass)[t].className = cm.labels[t]
                      /\ SumSeq(cm.matrix[t])
                           = Val(errorsByClass)[t].totalSamples

\* the real backend served a matrix with a misclassification next to the
\* overview and the errors by class
C4_Witness ==
    /\ ~useMocks
    /\ overview # Null
    /\ errorsByClass # Null
    /\ confusionMatrix # Null
    /\ Val(confusionMatrix).matrix[1][2] > 0
    /\ Val(confusionMatrix).matrix[2][2] > 0

(* C5: the four breakdown percentages of the overview are each in          *)
(* [0, 100] and sum to 100, so the segments of the stacked bar fill        *)
(* exactly 100% of its width.                                              *)
C5_BreakdownSumsTo100 ==
    overview # Null =>
        LET o == Val(overview)
            w == SegmentWidths(o)
        IN  /\ \A i \in 1..4 : Within(w[i], 0, 100)
            /\ SumsTo(<< o.correctConfident, o.correctUnsure,
                         o.wrongUnsure, o.wrongConfident >>, 100)
            /\ SumsTo(w, 100)

\* an overview computed from a correct unsure and a wrong confident record
C5_Witness ==
    /\ ~useMocks
    /\ overview # Null
    /\ Val(overview).correctUnsure.num > 0
    /\ Val(overview).wrongConfident.num > 0

\* the bucket of the curve at position b holds the confidence c
InBucketRange(curve, b, c) ==
    \/ curve[b].confidenceMin <= c /\ c < curve[b].confidenceMax
    \/ b = Len(curve) /\ c = curve[b].confidenceMax

\* the totals of the curve sum to the record count, the counts of each
\* bucket add up and each accuracy is a fraction, correct / total up to
\* a rounding to three decimals when the bucket is not empty
CurveCounts(curve) ==
    /\ ~useMocks => SumTotals(curve) = Len(dataset)
    /\ overview # Null
         => SumTotals(curve) = Val(overview).totalSamples
    /\ \A b \in 1..Len(curve) :
         /\ curve[b].correctCount + curve[b].incorrectCount
              = curve[b].totalCount
         /\ Within(curve[b].accuracyInBucket, 0, 1)
         /\ curve[b].totalCount > 0 =>
              LET acc  == curve[b].accuracyInBucket
                  diff == acc.num * curve[b].totalCount
                          - curve[b].correctCount * acc.den
              IN  /\ 1000 * diff <= acc.den * curve[b].totalCount
                  /\ 1000 * diff >= -(acc.den * curve[b].totalCount)

C7_TenBucketsOfWidthTenth ==
    confidenceCurve # Null =>
        LET curve == Val(confidenceCurve)
        IN  /\ Len(curve) = NUM_BUCKETS
            /\ \A b \in 1..Len(curve) :
                 /\ curve[b].confidenceMin = (b - 1) * BUCKET_WIDTH
                 /\ curve[b].confidenceMax = b * BUCKET_WIDTH
            /\ \A c \in 0..100 :
                 Cardinality({ b \in 1..Len(curve) :
                                 InBucketRange(curve, b, c) }) = 1

(* C8: the page size of a predictions query is capped at 100 and no        *)
(* returned page holds more than 100 records.                              *)
C8_PageSizeCapped ==
    pc = "done" =>
        /\ Val(response).pageSize <= MAX_PAGE_SIZE
        /\ Len(Val(response).predictions) <= MAX_PAGE_SIZE

(* C9: on the real path getPredictions sends every filter that is set      *)
(* under the parameter name documented for GET /api/predictions and        *)
(* nothing else, so the filters select the records they select on the      *)
(* mock path.                                                              *)
C9_DocumentedParameterNames ==
    (pc = "done" /\ ~useMocks) =>
        /\ TruthyString(filters.trueLabel)
             => params["true_label"] = filters.trueLabel
        /\ TruthyString(filters.predictedLabel)
             => params["pred_label"] = filters.predictedLabel
        /\ filters.minConfidence # Undefined
             => params["min_conf"]
                  = Some(NumberToString(Val(filters.minConfidence)))
        /\ filters.maxConfidence # Undefined
             => params["max_conf"]
                  = Some(NumberToString(Val(filters.maxConfidence)))
        /\ TruthyBool(filters.onlyErrors)
             => params["only_errors"] = Some("true")
        /\ TruthyBool(filters.onlyHighConfidenceErrors)
             => params["only_high_confidence_errors"] = Some("true")
        /\ TruthyNumber(filters.page)
             => params["page"] = Some(NumberToString(Val(filters.page)))
        /\ TruthyNumber(filters.pageSize)
             => params["page_size"]
                  = Some(NumberToString(Val(filters.pageSize)))
        /\ \A name \in ParamNames \ DocumentedParams :
             params[name] = Undefined
        /\ Val(response).total = Len(ApplyMockFilters(dataset, filters))

(* C10: no ratio a component computes from a loaded artifact has a zero    *)
(* denominator: the bar colours and the tooltip of the errors-by-class     *)
(* chart, the cell colours of the confusion matrix and the error rate of   *)
(* the Total Failures card.                                                *)
C10_NoZeroDenominator ==
    /\ errorsByClass # Null =>
         LET chartData == ChartData(Val(errorsByClass))
         IN  \A i \in 1..Len(chartData) :
               BarRatio(chartData[i].errors, MaxErrors(chartData)).den # 0
    /\ tooltip # Null => Val(tooltip).den # 0
    /\ confusionMatrix # Null =>
         LET cm == Val(confusionMatrix)
         IN  \A t \in 1..Len(cm.matrix) : \A p \in 1..Len(cm.matrix[t]) :
               Intensity(cm.matrix[t][p], MaxVal(cm)).den # 0
    /\ overview # Null => ErrorRateCard(Val(overview)).den # 0

----------------------------------------------------------------------------
(* Rational arithmetic, every result in lowest terms *)

RECURSIVE GCD(_, _)
GCD(a, b) == IF b = 0 THEN a ELSE GCD(b, a % b)

Abs(a) == IF a < 0 THEN -a ELSE a

Norm(r) ==
    LET g == GCD(Abs(r.num), r.den)
    IN  Rat(r.num \div g, r.den \div g)

RatAdd(a, b) == Norm(Rat(a.num * b.den + b.num * a.den, a.den * b.den))

RatMul(a, b) == Norm(Rat(a.num * b.num, a.den * b.den))

RatAbsDiff(a, b) ==
    Norm(Rat(Abs(a.num * b.den - b.num * a.den), a.den * b.den))

RatEq(a, b) == a.num * b.den = b.num * a.den

RECURSIVE SumRat(_)
SumRat(s) == IF s = << >> THEN Rat(0, 1) ELSE RatAdd(Head(s), SumRat(Tail(s)))

----------------------------------------------------------------------------
(* Calibration Engine of the evaluation core, from the design document:    *)
(* N equal-width bins over [0, 1], the last one closed at 1.               *)

\* the bin counts GET /api/calibration is asked for: 1..MaxBins and the
\* default
MaxBins == 3

DEFAULT_BINS == 10

BinCounts == (1..MaxBins) \cup { DEFAULT_BINS }

\* bin index = floor(confidence * N), clamped to the last bin
BinIndex(confidence, n) == Min((confidence * n) \div 100, n - 1)

\* the positions of the records that fall into bin b (counted from 0)
InBin(records, b, n) ==
    { i \in 1..Len(records) : BinIndex(records[i].confidence, n) = b }

\* one bin of the report: mean confidence and accuracy are 0 when empty
CalibrationBin(records, b, n) ==
    LET members == InBin(records, b, n)
        count   == Cardinality(members)
    IN  [ range    |-> << Rat(b, n), Rat(b + 1, n) >>,
          count    |-> count,
          avgConf  |-> IF count = 0 THEN Rat(0, 1)
                       ELSE Rat(SumConfidence(records, members), 100 * count),
          accuracy |-> IF count = 0 THEN Rat(0, 1)
                       ELSE Rat(Cardinality(members \cap CorrectOnes(records)),
                                count) ]

\* the weight of a bin in the ECE, with the per-bin count as denominator
BinWeightPerBin(count, total) == IF count = 0 THEN Rat(0, 1) ELSE Rat(1, 1)

\* the weight of a bin in the ECE: its share of all records
BinWeight(count, total) == Rat(count, total)

\* ECE = sum over the bins of weight * |accuracy - mean confidence|
ExpectedCalibrationError(bins, total) ==
    IF total = 0 THEN Rat(0, 1)
    ELSE SumRat([ b \in 1..Len(bins) |->
                    RatMul(BinWeight(bins[b].count, total),
                           RatAbsDiff(bins[b].accuracy, bins[b].avgConf)) ])

CalibrationEngine(records, n) ==
    LET bins == [ b \in 1..n |-> CalibrationBin(records, b - 1, n) ]
    IN  [ bins |-> bins,
          ece  |-> ExpectedCalibrationError(bins, Len(records)) ]

\* GET /api/calibration?bins=n
ApiCalibration(n) == CalibrationEngine(dataset, n)

----------------------------------------------------------------------------
(* ReliabilityDiagram: what the component derives from its state *)

\* x.toFixed(2) of the percentage 100 * r, in hundredths of a percent
PercentToFixed2(r) == (2 * 10000 * r.num + r.den) \div (2 * r.den)

\* chartData: one row per bin, every ratio as a percentage
ReliabilityChartData(data) ==
    [ b \in 1..Len(data.bins) |->
        LET bin == data.bins[b]
        IN  [ bin           |-> << RatMul(Rat(100, 1), bin.range[1]),
                                   RatMul(Rat(100, 1), bin.range[2]) >>,
              avgConfidence |-> RatMul(Rat(100, 1), bin.avgConf),
              accuracy      |-> RatMul(Rat(100, 1), bin.accuracy),
              count         |-> bin.count,
              gap           |-> RatMul(Rat(100, 1),
                                       RatAbsDiff(bin.accuracy, bin.avgConf)),
              perfect       |-> RatMul(Rat(100, 2),
                                       RatAdd(bin.range[1], bin.range[2])) ] ]

ecePercent(data) == PercentToFixed2(data.ece)

\* the colour of the ECE figure
EceColor(data) ==
    IF data.ece.num * 100 < 5 * data.ece.den THEN "emerald"
    ELSE IF data.ece.num * 10 < data.ece.den THEN "amber"
    ELSE "red"

----------------------------------------------------------------------------
(* The evaluation run and the reliability diagram as a state machine: the  *)
(* record builder turns the raw inference results into the record list,    *)
(* then the diagram fetches the calibration report for some bin count.     *)

RunRecordBuilder ==
    /\ dataset = << >>
    /\ inference # << >>
    /\ dataset' = BuildRecords(inference)
    /\ UNCHANGED << useMocks, artifactVars, queryVars, inference,
                    calibration, loadingCalibration, calibrationError,
                    sliceVars, tableVars, serveVars >>

\* fetchData: getCalibration resolved
CalibrationLoaded ==
    /\ dataset # << >>
    /\ loadingCalibration
    /\ \E n \in BinCounts : calibration' = Some(ApiCalibration(n))
    /\ loadingCalibration' = FALSE
    /\ UNCHANGED << useMocks, dataset, artifactVars, queryVars, inference,
                    calibrationError, sliceVars,
                    tableVars, serveVars >>

\* fetchData: getCalibration threw
CalibrationFailed ==
    /\ dataset # << >>
    /\ loadingCalibration
    /\ calibrationError' = Some("Failed to load calibration data")
    /\ loadingCalibration' = FALSE
    /\ UNCHANGED << useMocks, dataset, artifactVars, queryVars, inference,
                    calibration, sliceVars, tableVars, serveVars >>

InitCore ==
    /\ useMocks = FALSE
    /\ inference \in RawRuns
    /\ dataset = << >>
    /\ InitArtifacts
    /\ InitView
    /\ filters = InitialFilters
    /\ params = NoParams
    /\ response = Null
    /\ pc = "call"

NextCore ==
    \/ RunRecordBuilder
    \/ CalibrationLoaded
    \/ CalibrationFailed

SpecCore == InitCore /\ [][NextCore]_vars

----------------------------------------------------------------------------
(* ConfusionMatrixDisplay with slice selection.  The page that supplies    *)
(* onCellClick and activeSlice is not among the sources: the props are any *)
(* callback or none, and any slice over the labels of the matrix or none.  *)

SliceSelection(trueLabel, predLabel) ==
    [ trueLabel |-> trueLabel, predLabel |-> predLabel ]

\* clicks and slices fall in the first MaxCell rows and columns
MaxCell == 3

CellIndexes(data) == 1..Min(MaxCell, Len(data.labels))

\* handleCellClick with the labels exchanged in the selection
handleCellClickTransposed(trueLabel, predLabel, value, isDiagonal) ==
    IF ~isDiagonal /\ value > 0 /\ onCellClick
    THEN Some([ trueLabel |-> predLabel, predLabel |-> trueLabel ])
    ELSE Null

\* handleCellClick: the argument onCellClick is invoked with, if it is
\* invoked
handleCellClick(trueLabel, predLabel, value, isDiagonal) ==
    IF ~isDiagonal /\ value > 0 /\ onCellClick
    THEN Some(SliceSelection(trueLabel, predLabel))
    ELSE Null

\* isCellActive: activeSlice?.trueLabel === trueLabel && ...
isCellActive(trueLabel, predLabel) ==
    /\ activeSlice # Null
    /\ Val(activeSlice).trueLabel = trueLabel
    /\ Val(activeSlice).predLabel = predLabel

\* the cells rendered with the active style
ActiveCells(data) ==
    { cell \in (1..Len(data.labels)) \X (1..Len(data.labels)) :
        isCellActive(data.labels[cell[1]], data.labels[cell[2]]) }

\* onClick of the cell in row i, column j
ClickCell ==
    /\ ~loadingMatrix
    /\ confusionMatrix # Null
    /\ LET data == Val(confusionMatrix)
       IN  \E i, j \in CellIndexes(data) :
             /\ clickedCell' = Some(<< i, j >>)
             /\ sliceCall' = handleCellClick(data.labels[i], data.labels[j],
                                             data.matrix[i][j], i = j)
    /\ UNCHANGED << useMocks, dataset, artifactVars, queryVars, coreVars,
                    tableVars, serveVars, onCellClick, activeSlice >>

\* the page renders the component with another activeSlice
ActiveSliceChanges ==
    /\ ~loadingMatrix
    /\ confusionMatrix # Null
    /\ LET data == Val(confusionMatrix)
       IN  \/ activeSlice' = Null
           \/ \E i, j \in CellIndexes(data) :
                activeSlice' = Some(SliceSelection(data.labels[i],
                                                   data.labels[j]))
    /\ activeSlice' # activeSlice
    /\ UNCHANGED << useMocks, dataset, artifactVars, queryVars, coreVars,
                    tableVars, serveVars, onCellClick, clickedCell, sliceCall >>

InitSlice ==
    /\ InitDataset
    /\ InitArtifacts
    /\ calibration = Null
    /\ loadingCalibration = TRUE
    /\ calibrationError = Null
    /\ onCellClick \in BOOLEAN
    /\ activeSlice = Null
    /\ clickedCell = Null
    /\ sliceCall = Null
    /\ InitTable
    /\ served = << >>
    /\ notFound = "error"
    /\ filters = InitialFilters
    /\ params = NoParams
    /\ response = Null
    /\ pc = "call"

NextSlice ==
    \/ MatrixLoaded
    \/ MatrixFailed
    \/ ClickCell
    \/ ActiveSliceChanges

SpecSlice == InitSlice /\ [][NextSlice]_vars

----------------------------------------------------------------------------
(* C11: for a non-empty record set and any bin count N >= 1 the ECE of the *)
(* calibration report is the sum over the bins of (bin.count / total       *)
(* records) * |bin.accuracy - bin.meanConfidence| and lies in [0, 1]; the  *)
(* bin counts sum to the total record count, so the weights sum to 1, and  *)
(* an empty bin contributes exactly 0.                                     *)

\* count * |accuracy - mean confidence| of the bin shown in a chart row,
\* from the gap the diagram displays (a percentage)
RowGapTimesCount(row) == RatMul(Rat(row.count, 100), row.gap)

C11_EceWeightedByTotalInUnitInterval ==
    (calibration # Null /\ Len(dataset) >= 1) =>
        LET data  == Val(calibration)
            rows  == ReliabilityChartData(data)
            total == Len(dataset)
        IN  /\ Len(data.bins) \in BinCounts
            /\ Within(data.ece, 0, 1)
            /\ SumSeq([ b \in 1..Len(rows) |-> rows[b].count ]) = total
            /\ RatEq(RatMul(Rat(total, 1), data.ece),
                     SumRat([ b \in 1..Len(rows) |->
                                RowGapTimesCount(rows[b]) ]))
            /\ \A b \in 1..Len(rows) :
                 rows[b].count = 0 =>
                   /\ rows[b].gap.num = 0
                   /\ RowGapTimesCount(rows[b]).num = 0

\* a report over ten bins with two occupied bins, an empty bin and a
\* calibration gap
C11_Witness ==
    /\ calibration # Null
    /\ Len(dataset) >= 2
    /\ Len(Val(calibration).bins) = DEFAULT_BINS
    /\ Val(calibration).ece.num > 0
    /\ \E a, b, c \in 1..DEFAULT_BINS :
         /\ a # b
         /\ Val(calibration).bins[a].count > 0
         /\ Val(calibration).bins[b].count > 0
         /\ Val(calibration).bins[c].count = 0

----------------------------------------------------------------------------
(* C12: for every valid probability vector the record builder sets         *)
(* predictedLabel to the index of the maximum probability, the lowest      *)
(* label index on exact ties, and confidence to the probability at that    *)
(* index; both depend on nothing but the vector.                           *)

\* the record builder has run over the whole evaluation run
RecordsBuilt == dataset # << >> /\ Len(dataset) = Len(inference)

C12_PredictedLabelIsLowestArgMax ==
    RecordsBuilt =>
        /\ \A i \in 1..Len(dataset) :
             LET probs == inference[i].classProbabilities
             IN  \E k \in DOMAIN probs :
                   /\ dataset[i].predictedLabel = Labels[k]
                   /\ dataset[i].confidence = probs[k]
                   /\ \A j \in DOMAIN probs : probs[j] <= probs[k]
                   /\ \A j \in DOMAIN probs : j < k => probs[j] < probs[k]
        /\ \A i, j \in 1..Len(dataset) :
             inference[i].classProbabilities = inference[j].classProbabilities
               => /\ dataset[i].predictedLabel = dataset[j].predictedLabel
                  /\ dataset[i].confidence = dataset[j].confidence

\* a run built into records in which one vector with an exact tie at its
\* maximum occurs under two true labels
C12_Witness ==
    /\ RecordsBuilt
    /\ ~useMocks
    /\ \E i, j \in 1..Len(dataset) :
         LET probs == inference[i].classProbabilities
         IN  /\ inference[j].classProbabilities = probs
             /\ inference[i].trueLabel # inference[j].trueLabel
             /\ \E a, b \in DOMAIN probs :
                   /\ a # b
                   /\ probs[a] = probs[b]
                   /\ probs[a] = dataset[i].confidence

----------------------------------------------------------------------------
(* C13: every served PredictionRecord has in topPredictions the top 3      *)
(* (label, probability) pairs (all of them when the label set has fewer    *)
(* than 3 labels), sorted by probability descending with ties broken by    *)
(* ascending canonical label index, and the first entry is                 *)
(* (predictedLabel, confidence).                                           *)

\* the canonical index of a label
LabelIndex(label) ==
    CHOOSE i \in 1..Len(CIFAR10_LABELS) : CIFAR10_LABELS[i] = label

\* the number of labels of the served dataset
LabelCount == IF useMocks THEN Len(CIFAR10_LABELS) ELSE NumClasses

RankedTop(r) ==
    LET top == r.topPredictions
    IN  /\ Len(top) = Min(TOP_K, LabelCount)
        /\ top[1].label = r.predictedLabel
        /\ top[1].probability = 100 * r.confidence
        /\ \A n \in 1..(Len(top) - 1) :
             \/ top[n].probability > top[n + 1].probability
             \/ /\ top[n].probability = top[n + 1].probability
                /\ LabelIndex(top[n].label) < LabelIndex(top[n + 1].label)

\* on the real path the pairs left out are not ranked before the last
\* pair kept
KeepsTheTop(r, probs) ==
    LET top  == r.topPredictions
        last == top[Len(top)]
        kept == { LabelIndex(top[n].label) : n \in 1..Len(top) }
    IN  /\ \A n \in 1..Len(top) :
             top[n].probability = 100 * probs[LabelIndex(top[n].label)]
        /\ \A k \in DOMAIN probs \ kept :
             \/ 100 * probs[k] < last.probability
             \/ /\ 100 * probs[k] = last.probability
                /\ k > LabelIndex(last.label)

----------------------------------------------------------------------------
(* C14: clicking any cell of the confusion matrix (true label t, predicted *)
(* label p) selects the slice (t, p): the slice callback is invoked with   *)
(* exactly that cell's labels, and the cell highlighted as active is       *)
(* exactly the one whose (true, predicted) pair equals the active slice.   *)

\* the labels of the cell that was clicked
ClickedSlice ==
    LET data == Val(confusionMatrix)
        cell == Val(clickedCell)
    IN  SliceSelection(data.labels[cell[1]], data.labels[cell[2]])

\* the clicked cell is off the diagonal and counts at least one record
ClickedAnError ==
    LET cell == Val(clickedCell)
    IN  /\ cell[1] # cell[2]
        /\ Val(confusionMatrix).matrix[cell[1]][cell[2]] > 0

\* the active style is on the cell of the active slice and on no other
HighlightIsTheActiveSlice ==
    confusionMatrix # Null =>
        LET data == Val(confusionMatrix)
        IN  /\ activeSlice = Null => ActiveCells(data) = {}
            /\ activeSlice # Null =>
                 /\ Cardinality(ActiveCells(data)) = 1
                 /\ \A cell \in ActiveCells(data) :
                      SliceSelection(data.labels[cell[1]],
                                     data.labels[cell[2]]) = Val(activeSlice)

----------------------------------------------------------------------------
(* The failure explorer of the Dashboard: FiltersBar edits, applies and    *)
(* clears the filters and exports; every change of the filters makes the   *)
(* Dashboard fetch the predictions again; FailureTable pages and selects.  *)

\* the number of getPredictions requests one behaviour issues
MaxRequests == 3

\* the number of rows of a page the user clicks
MaxRows == 1

ExportFormats == { "csv", "jsonl" }

\* the input the user edits, and the values an input can produce
EditedKeys == { "trueLabel" }

InputValues(key) ==
    IF key = "trueLabel" THEN { Undefined, Some("cat") }
    ELSE { Undefined, Some(TRUE) }

\* client.getPredictions(f) once it resolves
getPredictions(f) ==
    IF useMocks
    THEN getMockPaginatedPredictions(dataset, OrElse(f.page, 1),
                                     OrElse(f.pageSize, 10), f)
    ELSE ApiPredictions(dataset, BuildParams(f))

\* fetchPredictions up to its await: the request is on its way
fetchPredictions(f) ==
    /\ Len(outcomes) < MaxRequests
    /\ loadingPredictions' = TRUE
    /\ inflight' = inflight \cup { Request(Len(outcomes) + 1, f) }
    /\ outcomes' = Append(outcomes, "pending")

\* the form inputs after new filters if FiltersBar did not follow its prop
SyncedLocalKeepingEdits(applied, local) == local

\* the FiltersBar effect on [filters]: setLocalFilters(filters)
SyncedLocal(applied, local) == applied

\* Dashboard.handleFilterChange, with the effects that follow the new
\* filters: the fetch and the FiltersBar sync of its local state
handleFilterChange(newFilters) ==
    /\ filters' = newFilters
    /\ selectedPrediction' = Null
    /\ localFilters' = SyncedLocal(newFilters, localFilters)
    /\ fetchPredictions(newFilters)

\* handlePageChange if it cleared the selection as a filter change does
handlePageChangeDeselecting(page) ==
    /\ filters' = [filters EXCEPT !.page = Some(page)]
    /\ localFilters' = filters'
    /\ fetchPredictions(filters')
    /\ selectedPrediction' = Null

\* Dashboard.handlePageChange, with the same effects
handlePageChange(page) ==
    /\ filters' = [filters EXCEPT !.page = Some(page)]
    /\ localFilters' = SyncedLocal(filters', localFilters)
    /\ fetchPredictions(filters')
    /\ UNCHANGED selectedPrediction

hasActiveFilters(f) ==
    \/ TruthyString(f.trueLabel)
    \/ TruthyString(f.predictedLabel)
    \/ f.minConfidence # Undefined
    \/ f.maxConfidence # Undefined
    \/ TruthyBool(f.onlyErrors)
    \/ TruthyBool(f.onlyHighConfidenceErrors)

hasUnappliedChanges == localFilters # filters

\* the filters handleExport would pass if it read the form inputs
ExportArgumentLocal(applied, local) == local

\* the filters handleExport passes to downloadExport: the `filters` prop
ExportArgument(applied, local) == applied

\* the argument of onFilterChange if applyFilters passed the form inputs
\* as they are
AppliedFiltersKeepPage(local) == local

\* applyFilters: the argument of onFilterChange, { ...localFilters, page: 1 }
AppliedFilters(local) == [local EXCEPT !.page = Some(1)]

\* clearFilters: `cleared`, { page: 1, pageSize: filters.pageSize || 10 }
ClearedFilters(applied) ==
    Filters(Undefined, Undefined, Undefined, Undefined, Undefined, Undefined,
            Some(1), Some(OrElse(applied.pageSize, 10)))

\* handleLocalChange(key, value)
EditLocal ==
    \E key \in EditedKeys : \E value \in InputValues(key) :
        /\ localFilters' = [localFilters EXCEPT ![key] = value]
        /\ exportCall' = Null
        /\ handler' = "handleLocalChange"
        /\ UNCHANGED << useMocks, dataset, artifactVars, queryVars, coreVars,
                        sliceVars, serveVars, showExportMenu, predictions,
                        loadingPredictions, selectedPrediction, inflight,
                        outcomes >>

\* the Apply button
ApplyFilters ==
    /\ handleFilterChange(AppliedFilters(localFilters))
    /\ exportCall' = Null
    /\ handler' = "applyFilters"
    /\ UNCHANGED << useMocks, dataset, artifactVars, params, response, pc,
                    coreVars, sliceVars, serveVars, showExportMenu, predictions >>

\* the Clear all button, rendered while a filter is applied
ClearFilters ==
    /\ hasActiveFilters(filters)
    /\ handleFilterChange(ClearedFilters(filters))
    /\ exportCall' = Null
    /\ handler' = "clearFilters"
    /\ UNCHANGED << useMocks, dataset, artifactVars, params, response, pc,
                    coreVars, sliceVars, serveVars, showExportMenu, predictions >>

\* the Export button toggles the menu
ToggleExportMenu ==
    /\ showExportMenu' = ~showExportMenu
    /\ exportCall' = Null
    /\ handler' = "none"
    /\ UNCHANGED << useMocks, dataset, artifactVars, queryVars, coreVars,
                    sliceVars, serveVars, localFilters, predictions,
                    loadingPredictions, selectedPrediction, inflight,
                    outcomes >>

\* handleExport(format), from an entry of the open menu; the call is
\* recorded with the applied filters and the form inputs of the click
Export ==
    \E format \in ExportFormats :
        /\ showExportMenu
        /\ exportCall' = Some([ format  |-> format,
                                filters |-> ExportArgument(filters,
                                                           localFilters),
                                applied |-> filters,
                                local   |-> localFilters ])
        /\ showExportMenu' = FALSE
        /\ handler' = "none"
        /\ UNCHANGED << useMocks, dataset, artifactVars, queryVars, coreVars,
                        sliceVars, serveVars, localFilters, predictions,
                        loadingPredictions, selectedPrediction, inflight,
                        outcomes >>

\* the pagination of FailureTable is rendered for more than one page
PaginationShown ==
    /\ predictions # Null
    /\ Val(predictions).totalPages > 1

\* the Previous button
PreviousPage ==
    /\ PaginationShown
    /\ ~(Val(predictions).page <= 1)
    /\ handlePageChange(Val(predictions).page - 1)
    /\ exportCall' = Null
    /\ handler' = "handlePageChange"
    /\ UNCHANGED << useMocks, dataset, artifactVars, params, response, pc,
                    coreVars, sliceVars, serveVars, showExportMenu, predictions >>

\* the Next button
NextPage ==
    /\ PaginationShown
    /\ ~(Val(predictions).page >= Val(predictions).totalPages)
    /\ handlePageChange(Val(predictions).page + 1)
    /\ exportCall' = Null
    /\ handler' = "handlePageChange"
    /\ UNCHANGED << useMocks, dataset, artifactVars, params, response, pc,
                    coreVars, sliceVars, serveVars, showExportMenu, predictions >>

\* a click on a row of the table: handleSelectPrediction(pred)
SelectRow ==
    /\ predictions # Null
    /\ \E i \in 1..Min(Len(Val(predictions).predictions), MaxRows) :
           selectedPrediction' = Some(Val(predictions).predictions[i])
    /\ exportCall' = Null
    /\ handler' = "none"
    /\ UNCHANGED << useMocks, dataset, artifactVars, queryVars, coreVars,
                    sliceVars, serveVars, localFilters, showExportMenu,
                    predictions, loadingPredictions, inflight, outcomes >>

\* the mock path settles its requests after the same delay, in the order
\* they were made; the responses of the backend arrive in any order
MaySettle(req) == useMocks => \A other \in inflight : req.seq <= other.seq

\* a getPredictions promise resolves: setPredictions(data), then finally
PredictionsLoaded ==
    \E req \in inflight :
        /\ MaySettle(req)
        /\ predictions' = Some(getPredictions(req.filters))
        /\ loadingPredictions' = FALSE
        /\ inflight' = inflight \ { req }
        /\ outcomes' = [outcomes EXCEPT ![req.seq] = "ok"]
        /\ exportCall' = Null
        /\ handler' = "none"
        /\ UNCHANGED << useMocks, dataset, artifactVars, queryVars, coreVars,
                        sliceVars, serveVars, localFilters, showExportMenu,
                        selectedPrediction >>

\* the predictions state after a failure if the catch block cleared it
PredictionsAfterFailureCleared(data) == Null

\* the predictions state after a failure: the catch block only logs
PredictionsAfterFailure(data) == data

\* FailureTable: what is rendered for the props data and loading
TableView(data, loading) ==
    IF loading /\ data = Null THEN "skeleton"
    ELSE IF data = Null THEN "Failed to load predictions"
    ELSE "table"

\* a getPredictions promise rejects (fetchApi throws): catch, then finally
PredictionsFailed ==
    \E req \in inflight :
        /\ ~useMocks
        /\ predictions' = PredictionsAfterFailure(predictions)
        /\ loadingPredictions' = FALSE
        /\ inflight' = inflight \ { req }
        /\ outcomes' = [outcomes EXCEPT ![req.seq] = "failed"]
        /\ exportCall' = Null
        /\ handler' = "none"
        /\ UNCHANGED << useMocks, dataset, artifactVars, queryVars, coreVars,
                        sliceVars, serveVars, localFilters, showExportMenu,
                        selectedPrediction >>

InitExplorer ==
    /\ useMocks \in BOOLEAN
    /\ inference = << >>
    /\ dataset = mockPredictions
    /\ InitArtifacts
    /\ InitView
    /\ filters = InitialFilters
    /\ params = NoParams
    /\ response = Null
    /\ pc = "call"

NextExplorer ==
    \/ EditLocal
    \/ ApplyFilters
    \/ ClearFilters
    \/ ToggleExportMenu
    \/ Export
    \/ PreviousPage
    \/ NextPage
    \/ SelectRow
    \/ PredictionsLoaded
    \/ PredictionsFailed

SpecExplorer == InitExplorer /\ [][NextExplorer]_vars

----------------------------------------------------------------------------
(* C15: an export is made with the filters that are applied at the moment  *)
(* of the click: downloadExport gets the format chosen and the filters the *)
(* table was queried with, whatever the form inputs hold, and after the    *)
(* export the applied filters and the form inputs are what they were.      *)
C15_ExportUsesAppliedFilters ==
    exportCall # Null =>
        /\ Val(exportCall).format \in ExportFormats
        /\ Val(exportCall).filters = Val(exportCall).applied
        /\ filters = Val(exportCall).applied
        /\ localFilters = Val(exportCall).local

\* an export was made while the form inputs differed from the applied
\* filters
C15_Witness ==
    /\ exportCall # Null
    /\ hasUnappliedChanges
    /\ Val(exportCall).filters = filters
    /\ Val(exportCall).filters # localFilters

----------------------------------------------------------------------------
(* The serving layer under a sequence of calls: predictions queries and    *)
(* lookups by id, each answered from the record list as the call before    *)
(* left it. A query may come from a caller that wants a sort order.        *)

\* the number of calls one behaviour makes
MaxQueries == 3

\* the filters of the queries made
ServeFilters ==
    { InitialFilters,
      [InitialFilters EXCEPT !.page = Some(2)],
      [InitialFilters EXCEPT !.trueLabel = Some("cat"),
                             !.onlyErrors = Undefined] }

\* the ids looked up: the first error, the first correct record and an id
\* no record has
LookupIds ==
    { PredId("pred_", 0), PredId("pred_correct_", 0), PredId("pred_", 9999) }

\* the sort order the caller of a query wants, if any
SortInputs == { Undefined } \cup { Some(key) : key \in SortKeys }

Resolved(value) == [ status |-> "resolved", value |-> value ]

Rejected == [ status |-> "rejected" ]

\* Array.prototype.find(p => p.id === id)
FindById(records, id) ==
    LET hits == { i \in 1..Len(records) : records[i].id = id }
    IN  IF hits = {} THEN Undefined
        ELSE Some(records[CHOOSE i \in hits : \A j \in hits : i <= j])

\* GET /api/predictions/{id}: the record, or the answer of the backend
\* for an id it does not hold (fetchApi throws on a response that is not ok)
ApiPredictionById(records, id) ==
    IF FindById(records, id) # Undefined
    THEN Resolved(FindById(records, id))
    ELSE IF notFound = "null" THEN Resolved(Null) ELSE Rejected

\* client.getPredictionById(id) once it settles
getPredictionById(id) ==
    IF useMocks
    THEN Resolved(IF FindById(dataset, id) # Undefined
                  THEN FindById(dataset, id) ELSE Null)
    ELSE ApiPredictionById(dataset, id)

\* the record list after a query that filtered the list itself
ListAfterQueryInPlace(records, f) == ApplyMockFilters(records, f)

\* the record list after a query: the filter chain and the slice work on
\* the copy [...mockPredictions]
ListAfterQuery(records, f) == records

\* a predictions query; the sort order its caller wants is no argument of
\* getPredictions
ServePredictions ==
    \E f \in ServeFilters : \E sort \in SortInputs :
        /\ Len(served) < MaxQueries
        /\ served' = Append(served, [ call   |-> "getPredictions",
                                      args   |-> f,
                                      sort   |-> sort,
                                      result |-> Resolved(getPredictions(f)) ])
        /\ dataset' = ListAfterQuery(dataset, f)
        /\ UNCHANGED << useMocks, artifactVars, queryVars, coreVars,
                        sliceVars, tableVars, notFound >>

\* a lookup by id
ServeLookup ==
    \E id \in LookupIds :
        /\ Len(served) < MaxQueries
        /\ served' = Append(served, [ call   |-> "getPredictionById",
                                      args   |-> id,
                                      sort   |-> Undefined,
                                      result |-> getPredictionById(id) ])
        /\ UNCHANGED << useMocks, dataset, artifactVars, queryVars, coreVars,
                        sliceVars, tableVars, notFound >>

InitServe ==
    /\ useMocks \in BOOLEAN
    /\ inference = << >>
    /\ dataset = mockPredictions
    /\ InitArtifacts
    /\ InitPage
    /\ served = << >>
    /\ notFound \in IF useMocks THEN { "error" } ELSE { "error", "null" }
    /\ filters = InitialFilters
    /\ params = NoParams
    /\ response = Null
    /\ pc = "call"

NextServe ==
    \/ ServePredictions
    \/ ServeLookup

SpecServe == InitServe /\ [][NextServe]_vars

----------------------------------------------------------------------------
(* C16: the served record list is read-only: no predictions query and no   *)
(* lookup by id changes the list or a record of it, and two calls with     *)
(* the same arguments get the same result whatever was called in between.  *)
C16_ServingIsReadOnly ==
    /\ dataset = mockPredictions
    /\ \A i, j \in 1..Len(served) :
           (served[i].call = served[j].call /\ served[i].args = served[j].args)
               => served[i].result = served[j].result

\* a query with results was repeated after a different query
C16_Witness ==
    /\ Len(served) = 3
    /\ served[1].call = "getPredictions"
    /\ served[1].args = [InitialFilters EXCEPT !.trueLabel = Some("cat"),
                                               !.onlyErrors = Undefined]
    /\ served[2].call = "getPredictions"
    /\ served[2].args = InitialFilters
    /\ served[3] = served[1]
    /\ Len(served[3].result.value.predictions) > 0

----------------------------------------------------------------------------
(* C17: the errors-by-class artifact has exactly one entry per label, in   *)
(* the canonical order of the label set, each with totalSamples =          *)
(* correctCount + errorCount; the charts sort a copy for display, so the   *)
(* artifact keeps that order after every render.                           *)
C17_ErrorsByClassInCanonicalOrder ==
    errorsByClass # Null =>
        LET data   == Val(errorsByClass)
            labels == IF useMocks THEN CIFAR10_LABELS ELSE Labels
        IN  /\ [ i \in 1..Len(data) |-> data[i].className ] = labels
            /\ \A i \in 1..Len(data) :
                   data[i].totalSamples
                       = data[i].correctCount + data[i].errorCount

\* a bar of the chart was hovered, so the chart has rendered, and both
\* display orders differ from the order of the artifact
C17_Witness ==
    /\ errorsByClass # Null
    /\ tooltip # Null
    /\ SortByErrorCount(Val(errorsByClass)) # Val(errorsByClass)
    /\ SortByErrorRate(Val(errorsByClass)) # Val(errorsByClass)

----------------------------------------------------------------------------
\* FailureTable: the rows rendered as selected, those with
\* selectedId === pred.id
SelectedRows(data, selectedId) ==
    { i \in 1..Len(data.predictions) : data.predictions[i].id = selectedId }

\* the ids of the rows of a page
RowIds(data) ==
    { data.predictions[i].id : i \in 1..Len(data.predictions) }

\* the positions of the served list that hold the id
WithId(id) == { i \in 1..Len(dataset) : dataset[i].id = id }

----------------------------------------------------------------------------
\* the records of a page are in the order of the sort key
InSortOrder(page, key) ==
    \A i \in 1..(Len(page) - 1) : ~Before(page[i + 1], page[i], key)

(* C19: a predictions query can name a sort key, confidence ascending or   *)
(* descending, and its records then come in non-decreasing (resp.          *)
(* non-increasing) confidence order, also from one page to the next.       *)
C19_SortKeyOrdersTheRecords ==
    \A k \in 1..Len(served) :
        (served[k].call = "getPredictions" /\ served[k].sort # Undefined)
            => /\ InSortOrder(served[k].result.value.predictions,
                              Val(served[k].sort))
               /\ \A l \in 1..Len(served) :
                      ( /\ served[l].call = "getPredictions"
                        /\ served[l].sort = served[k].sort
                        /\ served[l].args
                             = [served[k].args EXCEPT !.page = Some(2)]
                        /\ served[k].args.page = Some(1) )
                      => InSortOrder(served[k].result.value.predictions
                                       \o served[l].result.value.predictions,
                                     Val(served[k].sort))

----------------------------------------------------------------------------
\* every request issued has completed, each with a response
AllResponded ==
    /\ inflight = {}
    /\ \A k \in 1..Len(outcomes) : outcomes[k] = "ok"

(* C20: after any sequence of filter applications and page changes, once   *)
(* every getPredictions request issued has completed, the predictions      *)
(* displayed are the response for the current filters, in whatever order   *)
(* the responses arrived.                                                  *)
C20_DisplayedPredictionsAreCurrent ==
    AllResponded => predictions = Some(getPredictions(filters))

----------------------------------------------------------------------------
\* totalPages of the result set for the filters f
TotalPagesFor(f) == getPredictions([f EXCEPT !.page = Some(1)]).totalPages

(* C21: the page requested through the UI (Previous, Next, Apply, Clear    *)
(* all) always lies in 1..max(1, totalPages) of the result set for the     *)
(* applied filters, also when Previous or Next is clicked while the table  *)
(* still shows the result of the filters applied before.                   *)
C21_RequestedPageInRange ==
    /\ filters.page # Undefined
    /\ Val(filters.page) >= 1
    /\ Val(filters.page) <= Max(1, TotalPagesFor(filters))

----------------------------------------------------------------------------
(* C22: loadingPredictions is true whenever a getPredictions request is in *)
(* flight and false only when none is, however the requests overlap.       *)
C22_LoadingWhileInFlight ==
    loadingPredictions <=> inflight # {}

----------------------------------------------------------------------------
\* the fields of the filters that select records
PredicateFields ==
    { "trueLabel", "predictedLabel", "minConfidence", "maxConfidence",
      "onlyErrors", "onlyHighConfidenceErrors" }

(* C23: every filter change FiltersBar issues carries page 1: Apply emits  *)
(* the form inputs with page overwritten to 1, Clear all emits page 1 and  *)
(* the current pageSize (10 when it is unset or 0) with no predicate set.  *)
C23_FilterChangeCarriesPageOne ==
    [][ /\ handler' = "applyFilters" =>
             /\ filters'.page = Some(1)
             /\ filters'.pageSize = localFilters.pageSize
             /\ \A k \in PredicateFields : filters'[k] = localFilters[k]
        /\ handler' = "clearFilters" =>
             /\ filters'.page = Some(1)
             /\ filters'.pageSize
                  = Some(IF filters.pageSize \in { Undefined, Some(0) }
                         THEN 10 ELSE Val(filters.pageSize))
             /\ \A k \in PredicateFields : filters'[k] = Undefined ]_vars

\* Apply was clicked with an edited input while page 2 was applied and
\* displayed
C23_Witness ==
    /\ handler = "applyFilters"
    /\ predictions # Null
    /\ Val(predictions).page = 2
    /\ filters.page = Some(1)
    /\ filters.trueLabel = Some("cat")

----------------------------------------------------------------------------
(* C24: in the Dashboard a filter change (handleFilterChange) always sets  *)
(* selectedPrediction to null; a page change (handlePageChange) changes    *)
(* only filters.page and leaves every other field of the filters, the      *)
(* pageSize and selectedPrediction as they were.                           *)
C24_FilterChangeDeselectsPageChangeDoesNot ==
    [][ /\ handler' \in { "applyFilters", "clearFilters" } =>
             selectedPrediction' = Null
        /\ handler' = "handlePageChange" =>
             /\ selectedPrediction' = selectedPrediction
             /\ filters'.pageSize = filters.pageSize
             /\ \A k \in PredicateFields : filters'[k] = filters[k] ]_vars

\* the page was changed with a row selected and a filter applied
C24_Witness ==
    /\ handler = "handlePageChange"
    /\ selectedPrediction # Null
    /\ filters.page = Some(2)
    /\ filters.onlyErrors = Some(TRUE)

----------------------------------------------------------------------------
(* C25: editing a filter input changes only the local state of FiltersBar: *)
(* the applied filters, the requests and the predictions stay as they are  *)
(* until Apply or Clear all; and whenever the applied filters are set anew *)
(* (a page change included) the local state becomes the applied filters,   *)
(* so unapplied edits are gone and hasUnappliedChanges is false.           *)
C25_EditsAreLocalUntilApplied ==
    [][ /\ handler' = "handleLocalChange" =>
             /\ filters' = filters
             /\ predictions' = predictions
             /\ inflight' = inflight
             /\ outcomes' = outcomes
             /\ loadingPredictions' = loadingPredictions
             /\ selectedPrediction' = selectedPrediction
        /\ handler' \in { "applyFilters", "clearFilters", "handlePageChange" } =>
             /\ localFilters' = filters'
             /\ ~hasUnappliedChanges' ]_vars

\* an input was edited and not applied while the table offers the next
\* page and a further request can be made
C25_Witness ==
    /\ handler = "handleLocalChange"
    /\ hasUnappliedChanges
    /\ PaginationShown
    /\ Val(predictions).page < Val(predictions).totalPages
    /\ Len(outcomes) < MaxRequests

----------------------------------------------------------------------------
\* the step is the failure of a request
RequestFails ==
    \E k \in 1..Len(outcomes) :
        outcomes[k] = "pending" /\ outcomes'[k] = "failed"

(* C26: when a getPredictions request fails the predictions state stays    *)
(* as it was (the page loaded before, or null), loadingPredictions becomes *)
(* false, and the filters and the selection do not change; the table shows *)
(* 'Failed to load predictions' only when no page was ever loaded.         *)
C26_FailureKeepsThePage ==
    /\ [][ RequestFails =>
              /\ predictions' = predictions
              /\ loadingPredictions' = FALSE
              /\ filters' = filters
              /\ localFilters' = localFilters
              /\ selectedPrediction' = selectedPrediction ]_vars
    /\ [](TableView(predictions, loadingPredictions)
              = "Failed to load predictions"
            => \A k \in 1..Len(outcomes) : outcomes[k] # "ok")

\* a request failed after a page had been loaded and a row selected
C26_Witness ==
    /\ \E k \in 1..Len(outcomes) : outcomes[k] = "failed"
    /\ \E k \in 1..Len(outcomes) : outcomes[k] = "ok"
    /\ outcomes[Len(outcomes)] = "failed"
    /\ predictions # Null
    /\ selectedPrediction # Null
    /\ ~loadingPredictions

----------------------------------------------------------------------------
(* The four artifact fetches of the Dashboard on their own, each request   *)
(* settling at some time: it resolves or, on the real path, it rejects.    *)

NextArtifacts ==
    \/ OverviewLoaded
    \/ OverviewFailed
    \/ MatrixLoaded
    \/ MatrixFailed
    \/ CurveLoaded
    \/ CurveFailed
    \/ ErrorsLoaded
    \/ ErrorsFailed

SpecArtifacts ==
    /\ Init
    /\ [][NextArtifacts]_vars
    /\ WF_vars(OverviewLoaded \/ OverviewFailed)
    /\ WF_vars(MatrixLoaded \/ MatrixFailed)
    /\ WF_vars(CurveLoaded \/ CurveFailed)
    /\ WF_vars(ErrorsLoaded \/ ErrorsFailed)

----------------------------------------------------------------------------
\* the state of one artifact fetch
OverviewFetch == << overview, loadingOverview >>

MatrixFetch == << confusionMatrix, loadingMatrix >>

CurveFetch == << confidenceCurve, loadingCurve >>

ErrorsFetch == << errorsByClass, loadingErrors >>

(* C27: each of the four artifact fetches made on mount ends with its      *)
(* loading flag false, whether the request resolves or rejects, provided   *)
(* it settles; the artifact is then the response or, after a failure,      *)
(* still null; and the outcome of one fetch changes neither the artifact   *)
(* nor the loading flag of another.                                        *)
C27_ArtifactFetchesSettleIndependently ==
    /\ <>[](~loadingOverview /\ ~loadingMatrix /\ ~loadingCurve
              /\ ~loadingErrors)
    /\ [](/\ overview \in { Null, Some(getOverview) }
          /\ confusionMatrix \in { Null, Some(getConfusionMatrix) }
          /\ confidenceCurve \in { Null, Some(getConfidenceCurve) }
          /\ errorsByClass \in { Null, Some(getErrorsByClass) })
    /\ [][ /\ OverviewFetch' # OverviewFetch =>
                UNCHANGED << MatrixFetch, CurveFetch, ErrorsFetch >>
           /\ MatrixFetch' # MatrixFetch =>
                UNCHANGED << OverviewFetch, CurveFetch, ErrorsFetch >>
           /\ CurveFetch' # CurveFetch =>
                UNCHANGED << OverviewFetch, MatrixFetch, ErrorsFetch >>
           /\ ErrorsFetch' # ErrorsFetch =>
                UNCHANGED << OverviewFetch, MatrixFetch, CurveFetch >> ]_vars

\* every fetch has settled, the overview request failed and the others
\* succeeded
C27_Witness ==
    /\ ~loadingOverview /\ ~loadingMatrix /\ ~loadingCurve /\ ~loadingErrors
    /\ overview = Null
    /\ confusionMatrix # Null
    /\ confidenceCurve # Null
    /\ errorsByClass # Null

----------------------------------------------------------------------------
\* the records the serving layer selects for the filters f, all on one page
FilteredList(f) ==
    IF useMocks THEN ApplyMockFilters(dataset, f)
    ELSE ApiPredictions(dataset,
                        [BuildParams(f) EXCEPT
                           !["page"] = Undefined,
                           !["page_size"] =
                               Some(NumberToString(MAX_PAGE_SIZE))]).predictions

\* the records of page k of the query with the filters f
PageOf(f, k) == getPredictions([f EXCEPT !.page = Some(k)]).predictions

\* the pages 1..n of the query, one after the other
RECURSIVE PagesUpTo(_, _)
PagesUpTo(f, n) == IF n = 0 THEN << >> ELSE PagesUpTo(f, n - 1) \o PageOf(f, n)

\* the position of a record in the served list
PositionOf(r) == CHOOSE i \in 1..Len(dataset) : dataset[i] = r

(* C28: for a page size of at least 1, totalPages = ceil(total / pageSize) *)
(* and the pages 1..totalPages of a query, in page order, are exactly the  *)
(* filtered records in the order of the dataset: none twice, none left     *)
(* out, pageSize records on every page but the last and between 1 and      *)
(* pageSize on the last.                                                   *)
C28_PagesPartitionTheSelection ==
    pc = "done" =>
        LET r    == Val(response)
            all  == PagesUpTo(filters, r.totalPages)
        IN  /\ r.pageSize >= 1
            /\ r.total = Len(FilteredList(filters))
            /\ r.totalPages = CeilDiv(r.total, r.pageSize)
            /\ all = FilteredList(filters)
            /\ \A i \in 1..(Len(all) - 1) :
                   PositionOf(all[i]) < PositionOf(all[i + 1])
            /\ r.page \in 1..r.totalPages
                   => r.predictions = PageOf(filters, r.page)
            /\ \A k \in 1..r.totalPages :
                   /\ k < r.totalPages => Len(PageOf(filters, k)) = r.pageSize
                   /\ k = r.totalPages
                        => Len(PageOf(filters, k)) \in 1..r.pageSize

\* the second of several pages was served and the last page is not full
C28_Witness ==
    /\ pc = "done"
    /\ Val(response).page = 2
    /\ Val(response).totalPages >= 3
    /\ Val(response).total % Val(response).pageSize # 0
    /\ Len(Val(response).predictions) = Val(response).pageSize

----------------------------------------------------------------------------
(* C29: a predictions query for a page outside 1..totalPages (zero,        *)
(* negative or past the end) returns no records and still reports the      *)
(* total and totalPages of the selection; getPredictions queries page 1    *)
(* for an unset or 0 page and page size 10 for an unset or 0 page size.    *)
C29_PageOutOfRangeIsEmpty ==
    pc = "done" =>
        LET r == Val(response)
        IN  /\ r.page \notin 1..r.totalPages
                 => /\ r.predictions = << >>
                    /\ r.total = Len(FilteredList(filters))
                    /\ r.totalPages = CeilDiv(r.total, r.pageSize)
            /\ filters.page \in { Undefined, Some(0) } => r.page = 1
            /\ filters.pageSize \in { Undefined, Some(0) } => r.pageSize = 10

----------------------------------------------------------------------------
(* C30: topPredictions of every served PredictionRecord is a valid partial *)
(* probability distribution: its labels are pairwise distinct members of   *)
(* the label set, each probability lies in [0, 1] and the probabilities    *)
(* sum to at most 1.                                                       *)

\* the label set of the served dataset
ServedLabels ==
    { CIFAR10_LABELS[i] : i \in 1..LabelCount }

PartialDistribution(top) ==
    /\ \A m, n \in DOMAIN top : m # n => top[m].label # top[n].label
    /\ \A n \in DOMAIN top :
         /\ top[n].label \in ServedLabels
         /\ top[n].probability >= 0
         /\ top[n].probability <= 10000
    /\ SumSeq([ n \in DOMAIN top |-> top[n].probability ]) <= 10000

C30_TopPredictionsArePartialDistribution ==
    /\ \A i \in 1..Len(dataset) :
         PartialDistribution(dataset[i].topPredictions)
    /\ response # Null =>
         \A i \in 1..Len(Val(response).predictions) :
           PartialDistribution(Val(response).predictions[i].topPredictions)

====
